---- MODULE Spec2Model ----
(***************************************************************************)
(* A model of the HAL orb component (src/src/HAL.tsx): the resolution of   *)
(* the target state from the props, the per-frame interpolation of the     *)
(* current state, and the effect / animation-frame life cycle around them. *)
(*                                                                         *)
(* JavaScript numbers are modelled as exact rationals <<n, d>> with d > 0  *)
(* in lowest terms; the two non-numbers that the code can produce are      *)
(* UNDEF (the value undefined) and NAN (the number NaN), encoded with a    *)
(* zero denominator so that every value has the same shape.                *)
(* Strings are sequences of one-character strings; an optional value is a  *)
(* sequence of length 0 (absent) or 1 (present).                           *)
(***************************************************************************)
EXTENDS Integers, Sequences, FiniteSets, TLC

VARIABLES
  props,              \* the props of the last render of the component
  targetState,        \* the memoised target state of the last render
  currentParams,      \* currentParamsRef.current: None (null) or Some(state)
  glRef,              \* glRef.current is a WebGL context
  initCleanup,        \* the init effect returned its cleanup
  loopCleanup,        \* the last run of the loop effect returned its cleanup
  effectsPending,     \* a render is committed and its effects have not run yet
  frames,             \* the frame callbacks requested and not yet run or cancelled
  animationFrameRef,  \* animationFrameRef.current: the last handle stored
  stepT,              \* the step t of the last tick
  reflectionUniform,  \* the value last given to the u_reflections uniform
  ticks,              \* the number of ticks run
  changes,            \* the number of re-renders
  diagnostics,        \* the number of console.error calls
  pc,                 \* the phase of the component
  hexIn,              \* the string given to hexToRgb
  rgbOut,             \* None or Some(the triple hexToRgb returned)
  schemeOut,          \* None or Some(the scheme generateColorScheme returned)
  fragIn,             \* the inputs of one run of the fragment shader
  fragOut,            \* None or Some(gl_FragColor of that run)
  glObjects,          \* the WebGL objects the instance created and has not deleted
  arrays,             \* the colour arrays of the JavaScript heap, by address
  objects,            \* the state objects (target and current) of the heap, by address
  tables,             \* the module-level tables and the colorScheme object of the host
  orb                 \* the refs, memo and pending closure of each of two instances

vars == <<props, targetState, currentParams, glRef, initCleanup, loopCleanup,
          effectsPending, frames, animationFrameRef, stepT, reflectionUniform,
          ticks, changes, diagnostics, pc, hexIn, rgbOut, schemeOut,
          fragIn, fragOut, glObjects, arrays, objects, tables, orb>>

\* the variables of the colour utilities run on their own
colorVars == <<hexIn, rgbOut, schemeOut>>

\* the variables of one run of the fragment shader
shadeVars == <<fragIn, fragOut>>

\* the variables of the heap shared by two instances
heapVars == <<arrays, objects, tables, orb>>

\* the variables of the single instance and of the functions run on their own
instanceVars == <<props, targetState, currentParams, glRef, initCleanup,
                  loopCleanup, effectsPending, frames, animationFrameRef, stepT,
                  reflectionUniform, ticks, changes, diagnostics, pc, hexIn,
                  rgbOut, schemeOut, fragIn, fragOut, glObjects>>

-----------------------------------------------------------------------------
(* Numbers *)

UNDEF == <<0, 0>>
NAN == <<1, 0>>

IsNum(x) == x[2] > 0

Abs(n) == IF n < 0 THEN -n ELSE n

\* the one element of a singleton set: The({F(x) : x \in {e}}) is F(e) with e
\* evaluated once
The(S) == CHOOSE v \in S : TRUE

\* Euclid's algorithm
RECURSIVE GCD(_, _)
GCD(a, b) ==
  IF b = 0 THEN a ELSE The({GCD(y, x % y) : x \in {a}, y \in {b}})

\* n / d in lowest terms, for d > 0
Reduce(n, d, g) == IF n = 0 THEN <<0, 1>> ELSE <<n \div g, d \div g>>

Rat(n, d) == The({Reduce(x, y, GCD(Abs(x), y)) : x \in {n}, y \in {d}})

Num(n) == <<n, 1>>

\* x + y over the least common denominator l
AddOver(x, y, l) == Rat(x[1] * (l \div x[2]) + y[1] * (l \div y[2]), l)

AddNum(x, y) ==
  IF ~IsNum(x) \/ ~IsNum(y) THEN NAN
  ELSE The({AddOver(x, y, (x[2] \div g) * y[2]) : g \in {GCD(x[2], y[2])}})

\* a + b of JavaScript numbers: NaN as soon as one operand is undefined or NaN
RAdd(a, b) == The({AddNum(x, y) : x \in {a}, y \in {b}})

NegNum(x) == IF ~IsNum(x) THEN NAN ELSE <<-x[1], x[2]>>

RNeg(a) == The({NegNum(x) : x \in {a}})

RSub(a, b) == RAdd(a, RNeg(b))

\* x * y with the common factors g1 of x[1], y[2] and g2 of y[1], x[2] cancelled
MulOver(x, y, g1, g2) ==
  Rat((x[1] \div g1) * (y[1] \div g2), (x[2] \div g2) * (y[2] \div g1))

MulNum(x, y) ==
  IF ~IsNum(x) \/ ~IsNum(y) THEN NAN
  ELSE IF x[1] = 0 \/ y[1] = 0 THEN <<0, 1>>
  ELSE The({MulOver(x, y, g1, g2) :
              g1 \in {GCD(Abs(x[1]), y[2])}, g2 \in {GCD(Abs(y[1]), x[2])}})

\* a * b
RMul(a, b) == The({MulNum(x, y) : x \in {a}, y \in {b}})

InvNum(y) == IF y[1] > 0 THEN <<y[2], y[1]>> ELSE <<-y[2], -y[1]>>

\* a / b for b # 0
RDiv(a, b) ==
  The({IF ~IsNum(y) THEN NAN ELSE MulNum(x, InvNum(y)) : x \in {a}, y \in {b}})

\* comparisons of numbers are false when an operand is not a number
RLess(a, b) == The({IsNum(d) /\ d[1] < 0 : d \in {RSub(a, b)}})
RLeq(a, b) == The({IsNum(d) /\ d[1] <= 0 : d \in {RSub(a, b)}})

\* a === b
StrictEq(a, b) == The({x # NAN /\ y # NAN /\ x = y : x \in {a}, y \in {b}})

RAbs(a) == The({IF ~IsNum(x) THEN NAN ELSE <<Abs(x[1]), x[2]>> : x \in {a}})

\* Math.min(a, b) and Math.max(a, b) of two numbers
MathMin(a, b) == The({IF RLess(y, x) THEN y ELSE x : x \in {a}, y \in {b}})
MathMax(a, b) == The({IF RLess(x, y) THEN y ELSE x : x \in {a}, y \in {b}})

InUnit(a) == The({RLeq(Num(0), x) /\ RLeq(x, Num(1)) : x \in {a}})

-----------------------------------------------------------------------------
(* Optional values and strings *)

None == <<>>
Some(x) == <<x>>

\* the truthiness of an optional string: undefined and "" are falsy
TruthyStr(o) == o # None /\ Len(o[1]) > 0

-----------------------------------------------------------------------------
(* Preset configurations *)

HALPreset == {"idle", "listening", "thinking", "speaking", "asleep"}

AnimFields == {"pulseSpeed", "pulseAmount", "cloudSpeed", "cloudIntensity",
               "highlightDrift", "highlightSize", "highlightPulse"}

\* a table that gives every preset the values of idle
UniformAnimations(preset) ==
  [pulseSpeed |-> Rat(8, 10), pulseAmount |-> Rat(2, 100),
   cloudSpeed |-> Rat(12, 100), cloudIntensity |-> Rat(35, 100),
   highlightDrift |-> Rat(25, 100), highlightSize |-> Rat(35, 100),
   highlightPulse |-> Rat(1, 10)]

\* the table with the cloudSpeed of thinking lowered to that of listening
PresetAnimationsCloudTie(preset) ==
  CASE preset = "idle" ->
         [pulseSpeed |-> Rat(8, 10), pulseAmount |-> Rat(2, 100),
          cloudSpeed |-> Rat(12, 100), cloudIntensity |-> Rat(35, 100),
          highlightDrift |-> Rat(25, 100), highlightSize |-> Rat(35, 100),
          highlightPulse |-> Rat(1, 10)]
    [] preset = "listening" ->
         [pulseSpeed |-> Rat(25, 10), pulseAmount |-> Rat(5, 100),
          cloudSpeed |-> Rat(35, 100), cloudIntensity |-> Rat(5, 10),
          highlightDrift |-> Num(0), highlightSize |-> Rat(5, 10),
          highlightPulse |-> Rat(25, 100)]
    [] preset = "thinking" ->
         [pulseSpeed |-> Rat(25, 10), pulseAmount |-> Rat(5, 100),
          cloudSpeed |-> Rat(35, 100), cloudIntensity |-> Rat(55, 100),
          highlightDrift |-> Rat(12, 10), highlightSize |-> Rat(65, 100),
          highlightPulse |-> Rat(12, 100)]
    [] preset = "speaking" ->
         [pulseSpeed |-> Num(6), pulseAmount |-> Rat(8, 100),
          cloudSpeed |-> Rat(85, 100), cloudIntensity |-> Rat(7, 10),
          highlightDrift |-> Rat(32, 10), highlightSize |-> Rat(12, 10),
          highlightPulse |-> Rat(2, 10)]
    [] preset = "asleep" ->
         [pulseSpeed |-> Rat(2, 10), pulseAmount |-> Rat(1, 100),
          cloudSpeed |-> Rat(4, 100), cloudIntensity |-> Rat(15, 100),
          highlightDrift |-> Rat(8, 100), highlightSize |-> Rat(12, 100),
          highlightPulse |-> Rat(2, 100)]

PRESET_ANIMATIONS(preset) ==
  CASE preset = "idle" ->
         [pulseSpeed |-> Rat(8, 10), pulseAmount |-> Rat(2, 100),
          cloudSpeed |-> Rat(12, 100), cloudIntensity |-> Rat(35, 100),
          highlightDrift |-> Rat(25, 100), highlightSize |-> Rat(35, 100),
          highlightPulse |-> Rat(1, 10)]
    [] preset = "listening" ->
         [pulseSpeed |-> Rat(25, 10), pulseAmount |-> Rat(5, 100),
          cloudSpeed |-> Rat(35, 100), cloudIntensity |-> Rat(5, 10),
          highlightDrift |-> Num(0), highlightSize |-> Rat(5, 10),
          highlightPulse |-> Rat(25, 100)]
    [] preset = "thinking" ->
         [pulseSpeed |-> Rat(25, 10), pulseAmount |-> Rat(5, 100),
          cloudSpeed |-> Rat(4, 10), cloudIntensity |-> Rat(55, 100),
          highlightDrift |-> Rat(12, 10), highlightSize |-> Rat(65, 100),
          highlightPulse |-> Rat(12, 100)]
    [] preset = "speaking" ->
         [pulseSpeed |-> Num(6), pulseAmount |-> Rat(8, 100),
          cloudSpeed |-> Rat(85, 100), cloudIntensity |-> Rat(7, 10),
          highlightDrift |-> Rat(32, 10), highlightSize |-> Rat(12, 10),
          highlightPulse |-> Rat(2, 10)]
    [] preset = "asleep" ->
         [pulseSpeed |-> Rat(2, 10), pulseAmount |-> Rat(1, 100),
          cloudSpeed |-> Rat(4, 100), cloudIntensity |-> Rat(15, 100),
          highlightDrift |-> Rat(8, 100), highlightSize |-> Rat(12, 100),
          highlightPulse |-> Rat(2, 100)]

PRESET_COLORS_blue ==
  [base |-> <<Rat(8, 100), Rat(18, 100), Rat(55, 100)>>,
   mid |-> <<Rat(15, 100), Rat(35, 100), Rat(75, 100)>>,
   highlight |-> <<Rat(5, 10), Rat(75, 100), Num(1)>>]

PRESET_COLORS_red ==
  [base |-> <<Rat(6, 10), Rat(8, 100), Rat(15, 100)>>,
   mid |-> <<Rat(85, 100), Rat(15, 100), Rat(25, 100)>>,
   highlight |-> <<Num(1), Rat(5, 10), Rat(6, 10)>>]

LISTENING_COLOR == PRESET_COLORS_red

-----------------------------------------------------------------------------
(* Utility functions *)

HexDigits == <<"0", "1", "2", "3", "4", "5", "6", "7", "8", "9",
               "a", "b", "c", "d", "e", "f">>
UpperHexDigits == <<"0", "1", "2", "3", "4", "5", "6", "7", "8", "9",
                    "A", "B", "C", "D", "E", "F">>

\* the class [a-f\d] under the i flag
IsHexDigit(c) ==
  \E i \in 1..16 : HexDigits[i] = c \/ UpperHexDigits[i] = c

DigitValue(c) ==
  (CHOOSE i \in 1..16 : HexDigits[i] = c \/ UpperHexDigits[i] = c) - 1

\* the two digits read in radix 10
ParseHexPairRadix10(x, y) == 10 * DigitValue(x) + DigitValue(y)

\* parseInt(xy, 16)
ParseHexPair(x, y) == 16 * DigitValue(x) + DigitValue(y)

\* the match of the expression without its final $: the first six digits
HexMatchPrefix(hex) ==
  LET body == IF Len(hex) > 0 /\ hex[1] = "#" THEN Tail(hex) ELSE hex
  IN  IF Len(body) >= 6 /\ \A i \in 1..6 : IsHexDigit(body[i])
      THEN SubSeq(body, 1, 6) ELSE <<>>

\* the match of /^#?([a-f\d]{2})([a-f\d]{2})([a-f\d]{2})$/i: the six digits, or <<>>
HexMatch(hex) ==
  LET body == IF Len(hex) > 0 /\ hex[1] = "#" THEN Tail(hex) ELSE hex
  IN  IF Len(body) = 6 /\ \A i \in 1..6 : IsHexDigit(body[i])
      THEN body ELSE <<>>

hexToRgb(hex) ==
  LET result == HexMatch(hex)
  IN  IF result = <<>> THEN <<Rat(15, 100), Rat(35, 100), Rat(75, 100)>>
      ELSE <<Rat(ParseHexPair(result[1], result[2]), 255),
             Rat(ParseHexPair(result[3], result[4]), 255),
             Rat(ParseHexPair(result[5], result[6]), 255)>>

\* the spread max - min, not divided by max
SaturationAbsolute(max, min) == RSub(max, min)

Saturation(max, min) ==
  IF max = Num(0) THEN Num(0) ELSE RDiv(RSub(max, min), max)

generateColorScheme(baseRgb) ==
  LET r == baseRgb[1]
      g == baseRgb[2]
      b == baseRgb[3]
      luminance == RAdd(RAdd(RMul(Rat(299, 1000), r), RMul(Rat(587, 1000), g)),
                        RMul(Rat(114, 1000), b))
      max == MathMax(MathMax(r, g), b)
      min == MathMin(MathMin(r, g), b)
      saturation == Saturation(max, min)
      grey(k) == LET v == RMul(luminance, k) IN <<v, v, v>>
  IN  IF RLess(saturation, Rat(1, 10))
      THEN [base |-> grey(Rat(4, 10)),
            mid |-> grey(Rat(8, 10)),
            highlight |-> <<Rat(95, 100), Rat(95, 100), Rat(95, 100)>>]
      ELSE [base |-> [i \in 1..3 |-> RMul(baseRgb[i], Rat(5, 10))],
            mid |-> [i \in 1..3 |-> MathMin(Num(1), RMul(baseRgb[i], Rat(12, 10)))],
            highlight |-> [i \in 1..3 |->
                             MathMin(Num(1), RAdd(RMul(baseRgb[i], Rat(5, 10)), Rat(5, 10)))]]

lerp(a, b, t) == RAdd(a, RMul(RSub(b, a), t))

lerpColor(a, b, t) == <<lerp(a[1], b[1], t), lerp(a[2], b[2], t), lerp(a[3], b[3], t)>>

-----------------------------------------------------------------------------
(* The target state computed from the props *)

\* { ...presetAnim, ...animation }: an own property of the override replaces the
\* preset's value, whatever its value is
MergeAnimation(presetAnim, animation) ==
  [f \in AnimFields |-> IF animation[f] # None THEN animation[f][1] ELSE presetAnim[f]]

\* a || b for an optional colour array (an array is truthy)
OrColor(o, default) == IF o # None THEN o[1] ELSE default

\* SelectColors with the global colour consulted before the listening default
SelectColorsGlobalFirst(p) ==
  IF p.colorScheme # None
  THEN [base |-> OrColor(p.colorScheme[1].base, PRESET_COLORS_blue.base),
        mid |-> OrColor(p.colorScheme[1].mid, PRESET_COLORS_blue.mid),
        highlight |-> OrColor(p.colorScheme[1].highlight, PRESET_COLORS_blue.highlight)]
  ELSE IF TruthyStr(p.presetColors[p.preset])
  THEN generateColorScheme(hexToRgb(p.presetColors[p.preset][1]))
  ELSE IF TruthyStr(p.color)
  THEN generateColorScheme(hexToRgb(p.color[1]))
  ELSE IF p.preset = "listening" THEN LISTENING_COLOR
  ELSE PRESET_COLORS_blue

\* the colours chosen before the asleep dimming
SelectColors(p) ==
  IF p.colorScheme # None
  THEN [base |-> OrColor(p.colorScheme[1].base, PRESET_COLORS_blue.base),
        mid |-> OrColor(p.colorScheme[1].mid, PRESET_COLORS_blue.mid),
        highlight |-> OrColor(p.colorScheme[1].highlight, PRESET_COLORS_blue.highlight)]
  ELSE IF p.preset = "listening"
  THEN LET listeningHex == p.presetColors["listening"]
       IN  IF TruthyStr(listeningHex)
           THEN generateColorScheme(hexToRgb(listeningHex[1]))
           ELSE LISTENING_COLOR
  ELSE IF TruthyStr(p.presetColors[p.preset])
  THEN generateColorScheme(hexToRgb(p.presetColors[p.preset][1]))
  ELSE IF TruthyStr(p.color)
  THEN generateColorScheme(hexToRgb(p.color[1]))
  ELSE PRESET_COLORS_blue

DimFactor == Rat(5, 10)

\* ShouldDim without the test of the explicit colour scheme
ShouldDimAnyAsleep(p) == p.preset = "asleep"

ShouldDim(p) == p.preset = "asleep" /\ p.colorScheme = None

\* DimColors that leaves the highlight colour at full brightness
DimColorsNoHighlight(colors) ==
  [base |-> [i \in 1..3 |-> RMul(colors.base[i], DimFactor)],
   mid |-> [i \in 1..3 |-> RMul(colors.mid[i], DimFactor)],
   highlight |-> colors.highlight]

DimColors(colors) ==
  [base |-> [i \in 1..3 |-> RMul(colors.base[i], DimFactor)],
   mid |-> [i \in 1..3 |-> RMul(colors.mid[i], DimFactor)],
   highlight |-> [i \in 1..3 |-> RMul(colors.highlight[i], DimFactor)]]

ResolveColors(p) ==
  IF ShouldDim(p) THEN DimColors(SelectColors(p)) ELSE SelectColors(p)

ComputeTargetState(p) ==
  LET anim == MergeAnimation(PRESET_ANIMATIONS(p.preset), p.animation)
      colors == ResolveColors(p)
  IN  [baseColor |-> colors.base,
       midColor |-> colors.mid,
       highlight |-> colors.highlight,
       pulseSpeed |-> anim["pulseSpeed"],
       pulseAmount |-> anim["pulseAmount"],
       cloudSpeed |-> anim["cloudSpeed"],
       cloudIntensity |-> anim["cloudIntensity"],
       highlightDrift |-> anim["highlightDrift"],
       highlightSize |-> anim["highlightSize"],
       highlightPulse |-> anim["highlightPulse"]]

\* a normalisation that reads the intensity of an object without looking at enabled
reflectionValueAnyObject(reflections) ==
  IF ~reflections.isObject
  THEN IF reflections.bool THEN Rat(6, 10) ELSE Num(0)
  ELSE IF reflections.intensity # None /\ reflections.intensity[1] # UNDEF
  THEN reflections.intensity[1] ELSE Rat(6, 10)

\* reflections === true ? 0.6 : (typeof reflections === 'object' && reflections.enabled)
\*   ? (reflections.intensity ?? 0.6) : 0
reflectionValue(reflections) ==
  IF ~reflections.isObject
  THEN IF reflections.bool THEN Rat(6, 10) ELSE Num(0)
  ELSE IF reflections.enabled = Some(TRUE)
  THEN IF reflections.intensity # None /\ reflections.intensity[1] # UNDEF
       THEN reflections.intensity[1] ELSE Rat(6, 10)
  ELSE Num(0)

-----------------------------------------------------------------------------
(* Inputs *)

NoPresetColors == [q \in HALPreset |-> None]
NoAnimation == [f \in AnimFields |-> None]
ReflectionsOff == [isObject |-> FALSE, bool |-> FALSE, enabled |-> None, intensity |-> None]

\* the props of <HAL /> with every default of the destructuring applied
DefaultProps ==
  [preset |-> "idle", color |-> None, presetColors |-> NoPresetColors,
   colorScheme |-> None, animation |-> NoAnimation,
   transitionSpeed |-> Num(1), reflections |-> ReflectionsOff]

Empty == <<>>
HexRed == <<"#", "F", "F", "0", "0", "0", "0">>
HexGreen == <<"0", "0", "c", "c", "6", "6">>
HexGrey == <<"#", "9", "9", "9", "9", "9", "9">>
HexShort == <<"#", "f", "f", "f">>
HexWord == <<"n", "o", "t", "a", "c", "o", "l", "o", "r">>

ColorInputs ==
  {None, Some(Empty), Some(HexRed), Some(HexGreen), Some(HexGrey), Some(HexShort)}

PresetColorInputs ==
  {NoPresetColors,
   [NoPresetColors EXCEPT !["listening"] = Some(HexGreen)],
   [NoPresetColors EXCEPT !["asleep"] = Some(HexRed), !["idle"] = Some(HexWord)],
   [NoPresetColors EXCEPT !["idle"] = Some(Empty), !["listening"] = Some(Empty),
                          !["asleep"] = Some(Empty)],
   [NoPresetColors EXCEPT !["thinking"] = Some(HexShort), !["speaking"] = Some(HexGrey)]}

Magenta == <<Num(1), Num(0), Rat(1, 2)>>
Teal == <<Num(0), Rat(1, 2), Rat(1, 2)>>
White == <<Num(1), Num(1), Num(1)>>

ColorSchemeInputs ==
  {None,
   Some([base |-> None, mid |-> None, highlight |-> None]),
   Some([base |-> Some(Magenta), mid |-> None, highlight |-> None]),
   Some([base |-> None, mid |-> Some(Teal), highlight |-> Some(White)]),
   Some([base |-> Some(Teal), mid |-> Some(Magenta), highlight |-> Some(White)])}

AnimationInputs ==
  {NoAnimation,
   [NoAnimation EXCEPT !["pulseSpeed"] = Some(Num(2))],
   [NoAnimation EXCEPT !["pulseAmount"] = Some(UNDEF)],
   [NoAnimation EXCEPT !["highlightSize"] = Some(Rat(8, 10)),
                       !["highlightDrift"] = Some(Num(1)),
                       !["cloudSpeed"] = Some(UNDEF)],
   [pulseSpeed |-> Some(Num(2)), pulseAmount |-> Some(Rat(5, 100)),
    cloudSpeed |-> Some(Rat(3, 10)), cloudIntensity |-> Some(Rat(45, 100)),
    highlightDrift |-> Some(Num(1)), highlightSize |-> Some(Rat(5, 10)),
    highlightPulse |-> Some(Rat(15, 100))]}

ResolveInputs ==
  {[DefaultProps EXCEPT !.preset = q, !.color = c, !.presetColors = pcs,
                        !.colorScheme = cs, !.animation = a] :
     q \in HALPreset, c \in ColorInputs, pcs \in PresetColorInputs,
     cs \in ColorSchemeInputs, a \in AnimationInputs}

-----------------------------------------------------------------------------
(* The resolution of the target state on a render, for every input *)

InitResolve ==
  /\ props \in ResolveInputs
  /\ targetState = ComputeTargetState(DefaultProps)
  /\ currentParams = None
  /\ glRef = FALSE
  /\ initCleanup = FALSE
  /\ loopCleanup = FALSE
  /\ effectsPending = FALSE
  /\ frames = {}
  /\ animationFrameRef = 0
  /\ stepT = Num(0)
  /\ reflectionUniform = Num(0)
  /\ ticks = 0
  /\ changes = 0
  /\ diagnostics = 0
  /\ glObjects = {}
  /\ arrays = <<>>
  /\ objects = <<>>
  /\ tables = <<>>
  /\ orb = <<>>
  /\ pc = "render"
  /\ hexIn = <<>>
  /\ rgbOut = <<>>
  /\ schemeOut = <<>>
  /\ fragIn = <<>>
  /\ fragOut = <<>>

\* useMemo(() => {...}, [preset, color, presetColors, colorScheme, animation])
Recompute ==
  /\ pc = "render"
  /\ targetState' = ComputeTargetState(props)
  /\ pc' = "resolved"
  /\ UNCHANGED colorVars
  /\ UNCHANGED heapVars
  /\ UNCHANGED shadeVars
  /\ UNCHANGED glObjects
  /\ UNCHANGED <<props, currentParams, glRef, initCleanup, loopCleanup,
                 effectsPending, frames, animationFrameRef, stepT,
                 reflectionUniform, ticks, changes, diagnostics>>

NextResolve == Recompute

SpecResolve == InitResolve /\ [][NextResolve]_vars

-----------------------------------------------------------------------------
(* The colour utilities run on one hex string, and a render with that string *)

\* the two lower-case digits of the byte n
ToHexPair(n) == <<HexDigits[(n \div 16) + 1], HexDigits[(n % 16) + 1]>>

PairInputs == {<<"0", "0">>, <<"0", "a">>, <<"0", "A">>, <<"a", "0">>, <<"f", "F">>}

\* six digits from PairInputs, with and without the leading #
PairedHexInputs ==
  {p \o q \o r : p \in PairInputs, q \in PairInputs, r \in PairInputs}
  \cup {<<"#">> \o p \o q \o r : p \in PairInputs, q \in PairInputs, r \in PairInputs}

\* every byte value in each of the three positions
ByteHexInputs ==
  {<<"#">> \o ToHexPair(n) \o <<"0", "A", "f", "f">> : n \in 0..255}
  \cup {<<"3", "3">> \o ToHexPair(n) \o <<"C", "c">> : n \in 0..255}
  \cup {<<"#", "9", "9", "0", "0">> \o ToHexPair(n) : n \in 0..255}

\* greys, near-greys on both sides of the saturation threshold, and colours
SaturationHexInputs ==
  {<<"f", "f", "f", "f", "e", "6">>,
   <<"f", "f", "f", "f", "e", "5">>,
   <<"#", "E", "6", "E", "6", "F", "F">>,
   <<"e", "5", "f", "f", "e", "5">>,
   <<"8", "0", "8", "0", "8", "0">>,
   <<"0", "0", "0", "0", "0", "0">>,
   <<"#", "F", "F", "F", "F", "F", "F">>,
   <<"0", "a", "0", "b", "0", "a">>,
   <<"#", "3", "3", "6", "6", "c", "c">>}

\* strings the expression of hexToRgb does not match
MalformedHexInputs ==
  {<<>>,
   <<"#">>,
   <<"n", "o", "t", "a", "c", "o", "l", "o", "r">>,
   <<"#", "f", "f", "f">>,
   <<"f", "f", "f">>,
   <<"1", "2", "3", "4", "5">>,
   <<"#", "1", "2", "3", "4", "5">>,
   <<"1", "2", "3", "4", "5", "6", "7">>,
   <<"#", "1", "2", "3", "4", "5", "6", "7">>,
   <<"f", "f", "0", "0", "0", "0", "f", "f">>,
   <<"g", "g", "0", "0", "0", "0">>,
   <<"#", "f", "f", "0", "0", "g", "z">>,
   <<"z", "z", "z", "z", "z", "z">>,
   <<"#", "#", "f", "f", "0", "0", "0">>,
   <<"#", "#", "f", "f", "0", "0", "0", "0">>,
   <<"f", "f", "0", "0", "0", "0", "#">>,
   <<"#", "f", "f", "0", "0", "0", "0", " ">>,
   <<" ", "f", "f", "0", "0", "0", "0">>,
   <<"0", "x", "f", "f", "0", "0">>,
   <<"0", "x", "f", "f", "0", "0", "0", "0">>,
   <<"f", "f", ",", "0", "0", "0">>,
   <<"-", "f", "f", "0", "0", "0">>}

HexInputs ==
  PairedHexInputs \cup ByteHexInputs \cup SaturationHexInputs \cup MalformedHexInputs

InitColor ==
  /\ hexIn \in HexInputs
  /\ rgbOut = None
  /\ schemeOut = None
  /\ props = DefaultProps
  /\ targetState = ComputeTargetState(DefaultProps)
  /\ currentParams = None
  /\ glRef = FALSE
  /\ initCleanup = FALSE
  /\ loopCleanup = FALSE
  /\ effectsPending = FALSE
  /\ frames = {}
  /\ animationFrameRef = 0
  /\ stepT = Num(0)
  /\ reflectionUniform = Num(0)
  /\ ticks = 0
  /\ changes = 0
  /\ diagnostics = 0
  /\ glObjects = {}
  /\ arrays = <<>>
  /\ objects = <<>>
  /\ tables = <<>>
  /\ orb = <<>>
  /\ pc = "hex"
  /\ fragIn = <<>>
  /\ fragOut = <<>>

\* hexToRgb(hex)
ParseHex ==
  /\ pc = "hex"
  /\ rgbOut' = Some(hexToRgb(hexIn))
  /\ pc' = "rgb"
  /\ UNCHANGED shadeVars
  /\ UNCHANGED heapVars
  /\ UNCHANGED glObjects
  /\ UNCHANGED <<hexIn, schemeOut, props, targetState, currentParams, glRef,
                 initCleanup, loopCleanup, effectsPending, frames,
                 animationFrameRef, stepT, reflectionUniform, ticks, changes,
                 diagnostics>>

\* generateColorScheme(hexToRgb(hex))
GenerateScheme ==
  /\ pc = "rgb"
  /\ schemeOut' = Some(generateColorScheme(rgbOut[1]))
  /\ pc' = "scheme"
  /\ UNCHANGED shadeVars
  /\ UNCHANGED heapVars
  /\ UNCHANGED glObjects
  /\ UNCHANGED <<hexIn, rgbOut, props, targetState, currentParams, glRef,
                 initCleanup, loopCleanup, effectsPending, frames,
                 animationFrameRef, stepT, reflectionUniform, ticks, changes,
                 diagnostics>>

\* the props of <HAL preset={q} color={hex} /> and of
\* <HAL preset={q} presetColors={{ [q]: hex }} />
PropsWithColor(q, hex, asOverride) ==
  IF asOverride
  THEN [DefaultProps EXCEPT !.preset = q,
                            !.presetColors = [NoPresetColors EXCEPT ![q] = Some(hex)]]
  ELSE [DefaultProps EXCEPT !.preset = q, !.color = Some(hex)]

\* a render of the component with the string as its colour or as the override of
\* its preset: the memo computes the target state
RenderWithColor ==
  /\ pc = "scheme"
  /\ \E q \in HALPreset, asOverride \in BOOLEAN :
       /\ props' = PropsWithColor(q, hexIn, asOverride)
       /\ targetState' = ComputeTargetState(PropsWithColor(q, hexIn, asOverride))
  /\ pc' = "resolved"
  /\ UNCHANGED shadeVars
  /\ UNCHANGED heapVars
  /\ UNCHANGED glObjects
  /\ UNCHANGED <<hexIn, rgbOut, schemeOut, currentParams, glRef, initCleanup,
                 loopCleanup, effectsPending, frames, animationFrameRef, stepT,
                 reflectionUniform, ticks, changes, diagnostics>>

NextColor ==
  \/ ParseHex
  \/ GenerateScheme
  \/ RenderWithColor

SpecColor == InitColor /\ [][NextColor]_vars

-----------------------------------------------------------------------------
(* The fragment shader, run on one pixel *)

\* a literal of the shader given in thousandths
Milli(n) == Rat(n, 1000)

Sq(a) == RMul(a, a)

\* dot(v, v) of a vec2
Dot2(v) == RAdd(Sq(v[1]), Sq(v[2]))

Sub2(v, c) == <<RSub(v[1], c[1]), RSub(v[2], c[2])>>

\* the square root of a perfect square
ISqrt(n) == CHOOSE k \in 0..46340 : k * k = n

\* the square root of a rational that has a rational one
Sqrt(q) == <<ISqrt(q[1]), ISqrt(q[2])>>

\* step(edge, x)
step(edge, x) == IF RLess(x, edge) THEN Num(0) ELSE Num(1)

\* step(edge, length(v)) and step(length(v), edge) for edge >= 0, decided on the
\* squares
stepLength(edge, v) == IF RLess(Dot2(v), Sq(edge)) THEN Num(0) ELSE Num(1)
lengthStep(v, edge) == IF RLess(Sq(edge), Dot2(v)) THEN Num(0) ELSE Num(1)

\* clamp(x, 0.0, 1.0)
clamp01(x) == MathMin(MathMax(x, Num(0)), Num(1))

\* smoothstep(edge0, edge1, x)
SmoothT(t) == RMul(RMul(t, t), RSub(Num(3), RMul(Num(2), t)))
smoothstep(edge0, edge1, x) ==
  SmoothT(clamp01(RDiv(RSub(x, edge0), RSub(edge1, edge0))))

\* mix(x, y, a)
mix(x, y, a) == RAdd(RMul(x, RSub(Num(1), a)), RMul(y, a))

\* a mask of radius 0.75
sphereWide(uv) ==
  IF ~RLess(Sq(Milli(742)), Dot2(uv)) THEN Num(1)
  ELSE IF ~RLess(Dot2(uv), Sq(Milli(750))) THEN Num(0)
  ELSE RSub(Num(1), smoothstep(Milli(742), Milli(750), Sqrt(Dot2(uv))))

\* float sphere = 1.0 - smoothstep(sphereRadius - edgeSoftness, sphereRadius, dist)
\* with sphereRadius 0.72 and edgeSoftness 0.008; the square root is taken only
\* inside the band, where the clamp of smoothstep does not decide the value
sphere(uv) ==
  IF ~RLess(Sq(Milli(712)), Dot2(uv)) THEN Num(1)
  ELSE IF ~RLess(Dot2(uv), Sq(Milli(720))) THEN Num(0)
  ELSE RSub(Num(1), smoothstep(Milli(712), Milli(720), Sqrt(Dot2(uv))))

\* an arc: step(radius - w, d) * step(d, radius + w) with d = length(uv - center)
Arc(uv, center, radius, w) ==
  RMul(stepLength(RSub(radius, w), Sub2(uv, center)),
       lengthStep(Sub2(uv, center), RAdd(radius, w)))

\* step(lo, x) * step(x, hi)
Between(lo, x, hi) == RMul(step(lo, x), step(x, hi))

\* a dash: d = abs(uv - center); step(d.x, half.x) * step(d.y, half.y)
Dash(uv, center, half) ==
  RMul(step(RAbs(RSub(uv[1], center[1])), half[1]),
       step(RAbs(RSub(uv[2], center[2])), half[2]))

topArc(uv) ==
  RMul(RMul(Arc(uv, <<Num(0), Milli(-80)>>, Milli(520), Milli(25)), step(Milli(280), uv[2])),
       Between(Milli(-380), uv[1], Milli(380)))

leftArc(uv) ==
  RMul(RMul(Arc(uv, <<Milli(150), Num(0)>>, Milli(380), Milli(18)),
            Between(Milli(-420), uv[1], Milli(-180))),
       Between(Num(0), uv[2], Milli(320)))

rightArc(uv) ==
  RMul(RMul(Arc(uv, <<Milli(-150), Num(0)>>, Milli(380), Milli(18)),
            Between(Milli(180), uv[1], Milli(420))),
       Between(Num(0), uv[2], Milli(320)))

\* the seven dashes with their weights
Dashes(uv) ==
  RAdd(RAdd(RAdd(RMul(Dash(uv, <<Milli(-220), Milli(420)>>, <<Milli(60), Milli(18)>>), Milli(850)),
                 RMul(Dash(uv, <<Milli(220), Milli(420)>>, <<Milli(60), Milli(18)>>), Milli(850))),
            RAdd(RMul(Dash(uv, <<Milli(-380), Milli(180)>>, <<Milli(35), Milli(12)>>), Milli(700)),
                 RMul(Dash(uv, <<Milli(380), Milli(180)>>, <<Milli(35), Milli(12)>>), Milli(700)))),
       RAdd(RAdd(RMul(Dash(uv, <<Milli(-280), Milli(-50)>>, <<Milli(25), Milli(10)>>), Milli(600)),
                 RMul(Dash(uv, <<Milli(280), Milli(-50)>>, <<Milli(25), Milli(10)>>), Milli(600))),
            RMul(Dash(uv, <<Num(0), Milli(-350)>>, <<Milli(40), Milli(15)>>), Milli(500))))

\* ref before min(ref, 1.0) * u_reflections
Ref(uv) ==
  RAdd(RAdd(topArc(uv), RMul(RAdd(leftArc(uv), rightArc(uv)), Milli(900))), Dashes(uv))

\* color = mix(color, vec3(1.0), ref)
MixToWhite(color, ref) == [i \in 1..3 |-> mix(color[i], Num(1), ref)]

\* the reflections block: ref = min(ref, 1.0) * u_reflections, then the overlay
Overlay(color, uv, reflections) ==
  The({MixToWhite(color, ref) : ref \in {RMul(MathMin(Ref(uv), Num(1)), reflections)}})

\* color / (color + vec3(0.45)) * 1.35
ToneMap(c) == RMul(RDiv(c, RAdd(c, Milli(450))), Milli(1350))

\* gl_FragColor = vec4(finalColor, sphere)
Output(color, alpha) == <<ToneMap(color[1]), ToneMap(color[2]), ToneMap(color[3]), alpha>>

\* main() after the mask: the reflections block when u_reflections > 0.0, then
\* the tone mapping
Lit(in, alpha) ==
  IF RLess(Num(0), in.reflections)
  THEN The({Output(color, alpha) : color \in {Overlay(in.color, in.uv, in.reflections)}})
  ELSE Output(in.color, alpha)

\* the early return of main() when sphere < 0.001
Masked(in, alpha) ==
  IF RLess(alpha, Milli(1)) THEN <<Num(0), Num(0), Num(0), Num(0)>> ELSE Lit(in, alpha)

\* gl_FragColor of main() for the pixel uv, the colour computed by the lighting
\* before the reflections block, and the uniform u_reflections
FragColor(in) == The({Masked(in, alpha) : alpha \in {sphere(in.uv)}})

\* directions of length 1 with rational coordinates
UnitDirections ==
  {<<Num(1), Num(0)>>, <<Num(0), Num(1)>>, <<Num(-1), Num(0)>>, <<Num(0), Num(-1)>>,
   <<Rat(3, 5), Rat(4, 5)>>, <<Rat(-4, 5), Rat(3, 5)>>, <<Rat(-3, 5), Rat(-4, 5)>>}

\* distances inside the sphere, across the antialiasing band and outside
Radii ==
  {Num(0), Rat(1, 2), Milli(710), Milli(712), Milli(714), Milli(716), Milli(718),
   Milli(720), Milli(730), Rat(9, 10), Num(1)}

\* pixels on the axes where the mask is positive and below 0.001
FaintPixels ==
  {<<Rat(7199, 10000), Num(0)>>, <<Num(0), Rat(-7199, 10000)>>}

\* pixels on the arcs and dashes of the reflections, and beside them
ReflectionPixels ==
  {<<Milli(-220), Milli(100)>>, <<Milli(220), Milli(100)>>, <<Num(0), Milli(440)>>,
   <<Milli(-220), Milli(420)>>, <<Milli(380), Milli(180)>>, <<Milli(280), Milli(-50)>>,
   <<Num(0), Milli(-350)>>, <<Milli(300), Milli(-300)>>}

UvInputs ==
  {<<RMul(r, d[1]), RMul(r, d[2])>> : r \in Radii, d \in UnitDirections}
  \cup FaintPixels \cup ReflectionPixels

\* colours the lighting gives before the reflections block: black, mid greys,
\* the default orb at uv (-0.22, 0.1) and time 0, and a bright highlight
LitColorInputs ==
  {<<Num(0), Num(0), Num(0)>>,
   <<Rat(1, 2), Rat(1, 4), Rat(3, 4)>>,
   <<Num(1), Num(1), Num(1)>>,
   <<Rat(55, 100), Rat(83, 100), Rat(131, 100)>>,
   <<Num(3), Num(2), Num(5)>>}

\* values of u_reflections
ReflectionUniformInputs == {Num(0), Rat(3, 10), Rat(6, 10), Num(1)}

FragInputs ==
  {[uv |-> uv, color |-> c, reflections |-> u] :
     uv \in UvInputs, c \in LitColorInputs, u \in ReflectionUniformInputs}

InitShade ==
  /\ fragIn \in FragInputs
  /\ fragOut = None
  /\ hexIn = <<>>
  /\ rgbOut = None
  /\ schemeOut = None
  /\ props = DefaultProps
  /\ targetState = ComputeTargetState(DefaultProps)
  /\ currentParams = None
  /\ glRef = FALSE
  /\ initCleanup = FALSE
  /\ loopCleanup = FALSE
  /\ effectsPending = FALSE
  /\ frames = {}
  /\ animationFrameRef = 0
  /\ stepT = Num(0)
  /\ reflectionUniform = Num(0)
  /\ ticks = 0
  /\ changes = 0
  /\ diagnostics = 0
  /\ glObjects = {}
  /\ arrays = <<>>
  /\ objects = <<>>
  /\ tables = <<>>
  /\ orb = <<>>
  /\ pc = "shade"

\* one run of main() of the fragment shader
Shade ==
  /\ pc = "shade"
  /\ fragOut' = Some(FragColor(fragIn))
  /\ pc' = "shaded"
  /\ UNCHANGED <<fragIn, props, targetState, currentParams, glRef, initCleanup,
                 loopCleanup, effectsPending, frames, animationFrameRef, stepT,
                 reflectionUniform, ticks, changes, diagnostics>>
  /\ UNCHANGED colorVars
  /\ UNCHANGED heapVars
  /\ UNCHANGED glObjects

NextShade == Shade

SpecShade == InitShade /\ [][NextShade]_vars

-----------------------------------------------------------------------------
(* The component: mount, re-renders, the loop effect, frames, unmount *)

MaxTicks == 2
MaxChanges == 2
MaxDenominator == 100000

MountInputs ==
  {DefaultProps,
   [DefaultProps EXCEPT !.preset = "listening", !.color = Some(HexGreen)],
   [DefaultProps EXCEPT !.animation = [NoAnimation EXCEPT !["pulseAmount"] = Some(UNDEF)]]}

LoopColors == {None, Some(HexRed)}
LoopPresetColors ==
  {NoPresetColors, [NoPresetColors EXCEPT !["asleep"] = Some(HexGreen)]}
LoopColorSchemes ==
  {None, Some([base |-> Some(Magenta), mid |-> None, highlight |-> None])}
LoopAnimations ==
  {NoAnimation,
   [NoAnimation EXCEPT !["pulseAmount"] = Some(UNDEF)],
   [NoAnimation EXCEPT !["highlightSize"] = Some(Rat(8, 10)),
                       !["pulseSpeed"] = Some(Num(2))]}
LoopSpeeds == {Num(1), Num(100), Num(200), Num(-100)}
LoopReflections ==
  {ReflectionsOff,
   [ReflectionsOff EXCEPT !.bool = TRUE],
   [isObject |-> TRUE, bool |-> FALSE, enabled |-> Some(TRUE), intensity |-> Some(Rat(3, 10))]}

InitOutcomes == {"ok", "noContext", "noShader", "compileError", "noProgram", "linkError"}

Init ==
  /\ props \in MountInputs
  /\ targetState = ComputeTargetState(props)
  /\ currentParams = None
  /\ glRef = FALSE
  /\ initCleanup = FALSE
  /\ loopCleanup = FALSE
  /\ effectsPending = TRUE
  /\ frames = {}
  /\ animationFrameRef = 0
  /\ stepT = Num(0)
  /\ reflectionUniform = Num(0)
  /\ ticks = 0
  /\ changes = 0
  /\ diagnostics = 0
  /\ glObjects = {}
  /\ arrays = <<>>
  /\ objects = <<>>
  /\ tables = <<>>
  /\ orb = <<>>
  /\ pc = "rendered"
  /\ hexIn = <<>>
  /\ rgbOut = <<>>
  /\ schemeOut = <<>>
  /\ fragIn = <<>>
  /\ fragOut = <<>>

\* the step of one tick: const t = 0.015 * transitionSpeed
Step(transitionSpeed) == RMul(Rat(15, 1000), transitionSpeed)

\* advance with the three speed fields smoothed like the others
advanceAllSmoothed(current, target, t) ==
  [baseColor |-> lerpColor(current.baseColor, target.baseColor, t),
   midColor |-> lerpColor(current.midColor, target.midColor, t),
   highlight |-> lerpColor(current.highlight, target.highlight, t),
   highlightSize |-> lerp(current.highlightSize, target.highlightSize, t),
   highlightPulse |-> lerp(current.highlightPulse, target.highlightPulse, t),
   cloudIntensity |-> lerp(current.cloudIntensity, target.cloudIntensity, t),
   pulseAmount |-> lerp(current.pulseAmount, target.pulseAmount, t),
   pulseSpeed |-> lerp(current.pulseSpeed, target.pulseSpeed, t),
   cloudSpeed |-> lerp(current.cloudSpeed, target.cloudSpeed, t),
   highlightDrift |-> lerp(current.highlightDrift, target.highlightDrift, t)]

\* the body of render(time) on the current state
advance(current, target, t) ==
  [baseColor |-> lerpColor(current.baseColor, target.baseColor, t),
   midColor |-> lerpColor(current.midColor, target.midColor, t),
   highlight |-> lerpColor(current.highlight, target.highlight, t),
   highlightSize |-> lerp(current.highlightSize, target.highlightSize, t),
   highlightPulse |-> lerp(current.highlightPulse, target.highlightPulse, t),
   cloudIntensity |-> lerp(current.cloudIntensity, target.cloudIntensity, t),
   pulseAmount |-> lerp(current.pulseAmount, target.pulseAmount, t),
   pulseSpeed |-> target.pulseSpeed,
   cloudSpeed |-> target.cloudSpeed,
   highlightDrift |-> target.highlightDrift]

\* a cancelAnimationFrame that leaves the callback pending
CancelNothing(pending, handle) == pending

\* cancelAnimationFrame(handle)
Cancel(pending, handle) == {f \in pending : f.id # handle}

\* the callback render of the loop effect run with these values in its closure
Frame(handle, target, transitionSpeed, reflections) ==
  [id |-> handle, targetState |-> target, transitionSpeed |-> transitionSpeed,
   reflections |-> reflections]

\* a loop effect that starts every run from the target state
LoopEffectReset(current, target) == Some(target)

\* what a run of the loop effect leaves in currentParamsRef: the effect reads the
\* ref in its guard and never assigns it
LoopEffectCurrent(current, target) == current

\* a guard of the loop effect that tests the context only
LoopGuardContextOnly == glRef

\* the guard of the loop effect (the canvas is always rendered)
LoopGuard == glRef /\ currentParams # None

\* the body of the loop effect, run with the values of the last render
RunLoopEffect(pending) ==
  IF LoopGuard
  THEN /\ frames' = pending \cup
                      {Frame(animationFrameRef + 1, targetState,
                             props.transitionSpeed, props.reflections)}
       /\ animationFrameRef' = animationFrameRef + 1
       /\ loopCleanup' = TRUE
       /\ currentParams' = LoopEffectCurrent(currentParams, targetState)
  ELSE /\ frames' = pending
       /\ loopCleanup' = FALSE
       /\ UNCHANGED <<animationFrameRef, currentParams>>

\* a mount that initialises the current state from the default props
MountOkDefaultState ==
  /\ pc = "rendered"
  /\ glRef' = TRUE
  /\ initCleanup' = TRUE
  /\ currentParams' = Some(ComputeTargetState(DefaultProps))
  /\ frames' = {Frame(animationFrameRef + 1, targetState,
                      props.transitionSpeed, props.reflections)}
  /\ animationFrameRef' = animationFrameRef + 1
  /\ loopCleanup' = TRUE
  /\ effectsPending' = FALSE
  /\ glObjects' = {"vertexShader", "fragmentShader", "program", "buffer"}
  /\ pc' = "mounted"
  /\ UNCHANGED colorVars
  /\ UNCHANGED heapVars
  /\ UNCHANGED shadeVars
  /\ UNCHANGED <<props, targetState, stepT, reflectionUniform, ticks, changes,
                 diagnostics>>

\* the effects of the mount, with the init effect succeeding: the context, the
\* program and the uniforms are set up, the current state is a copy of the
\* target state, and the loop effect requests the first frame
MountOk ==
  /\ pc = "rendered"
  /\ glRef' = TRUE
  /\ initCleanup' = TRUE
  /\ currentParams' = Some(targetState)
  /\ frames' = {Frame(animationFrameRef + 1, targetState,
                      props.transitionSpeed, props.reflections)}
  /\ animationFrameRef' = animationFrameRef + 1
  /\ loopCleanup' = TRUE
  /\ effectsPending' = FALSE
  /\ glObjects' = {"vertexShader", "fragmentShader", "program", "buffer"}
  /\ pc' = "mounted"
  /\ UNCHANGED colorVars
  /\ UNCHANGED heapVars
  /\ UNCHANGED shadeVars
  /\ UNCHANGED <<props, targetState, stepT, reflectionUniform, ticks, changes,
                 diagnostics>>

\* the sets of objects that can be left alive by an init effect that returns
\* early: compileShader runs for both shaders before either result is tested, a
\* shader that fails to compile is deleted and one that createShader refused
\* never existed, so the other shader is alive unless it failed too; nothing is
\* deleted when createProgram returns null or the link fails
LiveAfter(outcome) ==
  CASE outcome = "noContext" -> {{}}
    [] outcome \in {"noShader", "compileError"} ->
         {{}, {"vertexShader"}, {"fragmentShader"}}
    [] outcome = "noProgram" -> {{"vertexShader", "fragmentShader"}}
    [] outcome = "linkError" -> {{"vertexShader", "fragmentShader", "program"}}

\* the effects of the mount, with the init effect returning early
MountFail ==
  /\ pc = "rendered"
  /\ \E outcome \in InitOutcomes \ {"ok"} :
       /\ glRef' = (outcome # "noContext")
       /\ diagnostics' = IF outcome \in {"noContext", "compileError", "linkError"}
                         THEN diagnostics + 1 ELSE diagnostics
       /\ glObjects' \in LiveAfter(outcome)
  /\ effectsPending' = FALSE
  /\ pc' = "mounted"
  /\ UNCHANGED colorVars
  /\ UNCHANGED heapVars
  /\ UNCHANGED shadeVars
  /\ UNCHANGED <<props, targetState, currentParams, initCleanup, loopCleanup,
                 frames, animationFrameRef, stepT, reflectionUniform, ticks,
                 changes>>

\* a re-render of the mounted component with new props; the memo is recomputed
\* when one of its dependencies changed
Render(newProps) ==
  /\ pc = "mounted"
  /\ ~effectsPending
  /\ changes < MaxChanges
  /\ newProps # props
  /\ props' = newProps
  /\ targetState' =
       IF <<newProps.preset, newProps.color, newProps.presetColors,
            newProps.colorScheme, newProps.animation>>
          # <<props.preset, props.color, props.presetColors,
               props.colorScheme, props.animation>>
       THEN ComputeTargetState(newProps) ELSE targetState
  /\ effectsPending' = TRUE
  /\ changes' = changes + 1
  /\ UNCHANGED colorVars
  /\ UNCHANGED heapVars
  /\ UNCHANGED shadeVars
  /\ UNCHANGED glObjects
  /\ UNCHANGED <<currentParams, glRef, initCleanup, loopCleanup, frames,
                 animationFrameRef, stepT, reflectionUniform, ticks,
                 diagnostics, pc>>

SetPreset == \E q \in HALPreset : Render([props EXCEPT !.preset = q])
SetColor == \E c \in LoopColors : Render([props EXCEPT !.color = c])
SetPresetColors == \E m \in LoopPresetColors : Render([props EXCEPT !.presetColors = m])
SetColorScheme == \E cs \in LoopColorSchemes : Render([props EXCEPT !.colorScheme = cs])
SetAnimation == \E a \in LoopAnimations : Render([props EXCEPT !.animation = a])
SetTransitionSpeed == \E m \in LoopSpeeds : Render([props EXCEPT !.transitionSpeed = m])
SetReflections == \E r \in LoopReflections : Render([props EXCEPT !.reflections = r])

\* the effects of a re-render without the cleanup of the previous run: the
\* frame it requested stays pending
FlushEffectsWithoutCleanup ==
  /\ pc = "mounted"
  /\ effectsPending
  /\ effectsPending' = FALSE
  /\ RunLoopEffect(frames)
  /\ UNCHANGED colorVars
  /\ UNCHANGED heapVars
  /\ UNCHANGED shadeVars
  /\ UNCHANGED glObjects
  /\ UNCHANGED <<props, targetState, glRef, initCleanup, stepT, reflectionUniform,
                 ticks, changes, diagnostics, pc>>

\* the effects of a re-render: the cleanup of the previous run of the loop
\* effect, then its body again
FlushEffects ==
  /\ pc = "mounted"
  /\ effectsPending
  /\ effectsPending' = FALSE
  /\ RunLoopEffect(IF loopCleanup THEN Cancel(frames, animationFrameRef) ELSE frames)
  /\ UNCHANGED colorVars
  /\ UNCHANGED heapVars
  /\ UNCHANGED shadeVars
  /\ UNCHANGED glObjects
  /\ UNCHANGED <<props, targetState, glRef, initCleanup, stepT, reflectionUniform,
                 ticks, changes, diagnostics, pc>>

\* every number of the state has a denominator the next tick can multiply
Representable(current) ==
  /\ \A k \in {"baseColor", "midColor", "highlight"} : \A i \in 1..3 :
       current[k][i][2] <= MaxDenominator
  /\ \A f \in AnimFields : current[f][2] <= MaxDenominator

\* a tick that draws and does not request the next frame
TickWithoutRequest ==
  /\ ticks < MaxTicks
  /\ \E f \in frames :
       /\ Representable(currentParams[1])
       /\ stepT' = Step(f.transitionSpeed)
       /\ currentParams' =
            Some(advance(currentParams[1], f.targetState, Step(f.transitionSpeed)))
       /\ reflectionUniform' = reflectionValue(f.reflections)
       /\ frames' = frames \ {f}
  /\ animationFrameRef' = animationFrameRef
  /\ ticks' = ticks + 1
  /\ UNCHANGED colorVars
  /\ UNCHANGED heapVars
  /\ UNCHANGED shadeVars
  /\ UNCHANGED glObjects
  /\ UNCHANGED <<props, targetState, glRef, initCleanup, loopCleanup,
                 effectsPending, changes, diagnostics, pc>>

\* a frame callback runs: one tick of render(time)
Tick ==
  /\ ticks < MaxTicks
  /\ \E f \in frames :
       /\ Representable(currentParams[1])
       /\ stepT' = Step(f.transitionSpeed)
       /\ currentParams' =
            Some(advance(currentParams[1], f.targetState, Step(f.transitionSpeed)))
       /\ reflectionUniform' = reflectionValue(f.reflections)
       /\ frames' = (frames \ {f}) \cup {[f EXCEPT !.id = animationFrameRef + 1]}
  /\ animationFrameRef' = animationFrameRef + 1
  /\ ticks' = ticks + 1
  /\ UNCHANGED colorVars
  /\ UNCHANGED heapVars
  /\ UNCHANGED shadeVars
  /\ UNCHANGED glObjects
  /\ UNCHANGED <<props, targetState, glRef, initCleanup, loopCleanup,
                 effectsPending, changes, diagnostics, pc>>

\* the component is removed from the tree
Unmount ==
  /\ pc = "mounted"
  /\ ~effectsPending
  /\ pc' = "unmounting"
  /\ UNCHANGED colorVars
  /\ UNCHANGED heapVars
  /\ UNCHANGED shadeVars
  /\ UNCHANGED glObjects
  /\ UNCHANGED <<props, targetState, currentParams, glRef, initCleanup,
                 loopCleanup, effectsPending, frames, animationFrameRef, stepT,
                 reflectionUniform, ticks, changes, diagnostics>>

\* the cleanups of the two effects on unmount
RunCleanups ==
  /\ pc = "unmounting"
  /\ frames' = IF loopCleanup \/ initCleanup
               THEN Cancel(frames, animationFrameRef) ELSE frames
  /\ pc' = "unmounted"
  /\ UNCHANGED colorVars
  /\ UNCHANGED heapVars
  /\ UNCHANGED shadeVars
  /\ UNCHANGED glObjects
  /\ UNCHANGED <<props, targetState, currentParams, glRef, initCleanup,
                 loopCleanup, effectsPending, animationFrameRef, stepT,
                 reflectionUniform, ticks, changes, diagnostics>>

Next ==
  \/ MountOk
  \/ MountFail
  \/ SetPreset
  \/ SetColor
  \/ SetPresetColors
  \/ SetColorScheme
  \/ SetAnimation
  \/ SetTransitionSpeed
  \/ SetReflections
  \/ FlushEffects
  \/ Tick
  \/ Unmount
  \/ RunCleanups

Spec == Init /\ [][Next]_vars

\* the life cycle of an instance mounted with the default props, whose
\* re-renders change each dependency of the loop effect (targetState through
\* the preset, transitionSpeed, reflections)
InitLive ==
  /\ props = DefaultProps
  /\ targetState = ComputeTargetState(props)
  /\ currentParams = None
  /\ glRef = FALSE
  /\ initCleanup = FALSE
  /\ loopCleanup = FALSE
  /\ effectsPending = TRUE
  /\ frames = {}
  /\ animationFrameRef = 0
  /\ stepT = Num(0)
  /\ reflectionUniform = Num(0)
  /\ ticks = 0
  /\ changes = 0
  /\ diagnostics = 0
  /\ glObjects = {}
  /\ arrays = <<>>
  /\ objects = <<>>
  /\ tables = <<>>
  /\ orb = <<>>
  /\ pc = "rendered"
  /\ hexIn = <<>>
  /\ rgbOut = <<>>
  /\ schemeOut = <<>>
  /\ fragIn = <<>>
  /\ fragOut = <<>>

LivePresets == {"idle", "speaking"}
LiveSpeeds == {Num(100), Num(200)}

\* re-renders with another preset, another transitionSpeed
SetLivePreset == \E q \in LivePresets : Render([props EXCEPT !.preset = q])
SetLiveTransitionSpeed == \E m \in LiveSpeeds : Render([props EXCEPT !.transitionSpeed = m])

NextLive ==
  \/ MountOk
  \/ MountFail
  \/ SetLivePreset
  \/ SetLiveTransitionSpeed
  \/ SetReflections
  \/ FlushEffects
  \/ Tick
  \/ Unmount
  \/ RunCleanups

\* the frame callbacks are delivered fairly: a callback that stays requested
\* is run by the browser at its next frame
SpecLive == InitLive /\ [][NextLive]_vars /\ WF_vars(Tick)

-----------------------------------------------------------------------------
(* The reflection setting through the life cycle: every shape of the prop *)

\* the values of the reflections prop: false, true, and the objects
\* { enabled: true, intensity: 0.3 }, { enabled: true },
\* { enabled: true, intensity: 0 }, { enabled: false, intensity: 1 } and
\* { intensity: 0.9 }
ReflectionInputs ==
  {ReflectionsOff,
   [ReflectionsOff EXCEPT !.bool = TRUE],
   [isObject |-> TRUE, bool |-> FALSE, enabled |-> Some(TRUE), intensity |-> Some(Rat(3, 10))],
   [isObject |-> TRUE, bool |-> FALSE, enabled |-> Some(TRUE), intensity |-> None],
   [isObject |-> TRUE, bool |-> FALSE, enabled |-> Some(TRUE), intensity |-> Some(Num(0))],
   [isObject |-> TRUE, bool |-> FALSE, enabled |-> Some(FALSE), intensity |-> Some(Num(1))],
   [isObject |-> TRUE, bool |-> FALSE, enabled |-> None, intensity |-> Some(Rat(9, 10))]}

\* the component mounted with one of the settings and the default preset
InitReflections ==
  /\ props \in {[DefaultProps EXCEPT !.reflections = r] : r \in ReflectionInputs}
  /\ targetState = ComputeTargetState(props)
  /\ currentParams = None
  /\ glRef = FALSE
  /\ initCleanup = FALSE
  /\ loopCleanup = FALSE
  /\ effectsPending = TRUE
  /\ frames = {}
  /\ animationFrameRef = 0
  /\ stepT = Num(0)
  /\ reflectionUniform = Num(0)
  /\ ticks = 0
  /\ changes = 0
  /\ diagnostics = 0
  /\ glObjects = {}
  /\ arrays = <<>>
  /\ objects = <<>>
  /\ tables = <<>>
  /\ orb = <<>>
  /\ pc = "rendered"
  /\ hexIn = <<>>
  /\ rgbOut = <<>>
  /\ schemeOut = <<>>
  /\ fragIn = <<>>
  /\ fragOut = <<>>

\* a re-render with another reflection setting
SetReflectionInput ==
  \E r \in ReflectionInputs : Render([props EXCEPT !.reflections = r])

NextReflections ==
  \/ MountOk
  \/ SetReflectionInput
  \/ SetPreset
  \/ FlushEffects
  \/ Tick
  \/ Unmount
  \/ RunCleanups

SpecReflections == InitReflections /\ [][NextReflections]_vars

-----------------------------------------------------------------------------
(* Two instances on one JavaScript heap: arrays and objects held by reference *)

Orbs == {1, 2}

MaxHeapTicks == 2
MaxHeapChanges == 2

\* the colour arrays that exist before any instance: the six arrays of
\* PRESET_COLORS and the base array of a colorScheme object owned by the host
StaticArrayNames ==
  <<"blue.base", "blue.mid", "blue.highlight",
    "red.base", "red.mid", "red.highlight", "host.base">>

StaticArrays ==
  <<PRESET_COLORS_blue.base, PRESET_COLORS_blue.mid, PRESET_COLORS_blue.highlight,
    PRESET_COLORS_red.base, PRESET_COLORS_red.mid, PRESET_COLORS_red.highlight,
    Magenta>>

\* the address of a static array
Addr(name) == CHOOSE a \in 1..Len(StaticArrayNames) : StaticArrayNames[a] = name

\* PRESET_COLORS, PRESET_ANIMATIONS and the host's colorScheme { base: [1, 0, 0.5] }
\* as objects whose colour fields are addresses
StaticTables ==
  [blue |-> [base |-> Addr("blue.base"), mid |-> Addr("blue.mid"),
             highlight |-> Addr("blue.highlight")],
   red |-> [base |-> Addr("red.base"), mid |-> Addr("red.mid"),
            highlight |-> Addr("red.highlight")],
   host |-> [base |-> Some(Addr("host.base")), mid |-> None, highlight |-> None],
   animations |-> [q \in HALPreset |-> PRESET_ANIMATIONS(q)]]

HostColorScheme == Some([base |-> Some(Magenta), mid |-> None, highlight |-> None])

\* the props of the first render of an instance of this specification: the
\* defaults, so that the instances share the arrays of PRESET_COLORS.blue
HeapMountProps == {DefaultProps}

\* the props of its re-renders: the presets that select PRESET_COLORS.red and
\* new dimmed arrays, and the colorScheme object of the host
HeapProps ==
  {[DefaultProps EXCEPT !.preset = "listening"],
   [DefaultProps EXCEPT !.preset = "asleep"],
   [DefaultProps EXCEPT !.colorScheme = HostColorScheme]}

\* the scheme object the memo selects, as addresses: the object built from the
\* host's colorScheme, LISTENING_COLOR (which is PRESET_COLORS.red itself) or
\* PRESET_COLORS.blue itself
HeapSelectColors(tb, p) ==
  IF p.colorScheme # None
  THEN [base |-> OrColor(tb.host.base, tb.blue.base),
        mid |-> OrColor(tb.host.mid, tb.blue.mid),
        highlight |-> OrColor(tb.host.highlight, tb.blue.highlight)]
  ELSE IF p.preset = "listening" THEN tb.red
  ELSE tb.blue

\* colors.x.map(c => c * 0.5): a new array
HalfArray(a) == <<RMul(a[1], DimFactor), RMul(a[2], DimFactor), RMul(a[3], DimFactor)>>

\* the object the memo returns, { baseColor: colors.base, midColor: colors.mid,
\* highlight: colors.highlight, ...anim }, with the arrays of the heap after it
TargetObject(colors, anim) ==
  [baseColor |-> colors.base, midColor |-> colors.mid, highlight |-> colors.highlight,
   pulseSpeed |-> anim["pulseSpeed"], pulseAmount |-> anim["pulseAmount"],
   cloudSpeed |-> anim["cloudSpeed"], cloudIntensity |-> anim["cloudIntensity"],
   highlightDrift |-> anim["highlightDrift"], highlightSize |-> anim["highlightSize"],
   highlightPulse |-> anim["highlightPulse"]]

HeapTargetOf(arrs, colors, anim, dim) ==
  IF dim
  THEN [arrays |-> arrs \o <<HalfArray(arrs[colors.base]), HalfArray(arrs[colors.mid]),
                             HalfArray(arrs[colors.highlight])>>,
        object |-> TargetObject([base |-> Len(arrs) + 1, mid |-> Len(arrs) + 2,
                                 highlight |-> Len(arrs) + 3], anim)]
  ELSE [arrays |-> arrs, object |-> TargetObject(colors, anim)]

\* the body of the useMemo on the heap
HeapTargetState(arrs, tb, p) ==
  The({HeapTargetOf(arrs, colors, anim, ShouldDim(p)) :
         colors \in {HeapSelectColors(tb, p)},
         anim \in {MergeAnimation(tb.animations[p.preset], p.animation)}})

\* a state object with its colour arrays read from the heap
Deep(arrs, objs, ref) ==
  [objs[ref] EXCEPT !.baseColor = arrs[objs[ref].baseColor],
                    !.midColor = arrs[objs[ref].midColor],
                    !.highlight = arrs[objs[ref].highlight]]

\* a current state kept in one module-level object: the first mount creates it
\* and every later mount takes the same object
moduleLevelCurrent(objs, target) ==
  IF Len(objs) > Cardinality(Orbs)
  THEN [objects |-> objs, ref |-> Cardinality(Orbs) + 1]
  ELSE [objects |-> Append(objs, objs[target]), ref |-> Len(objs) + 1]

\* currentParamsRef.current = { ...targetState }: a new object with the same
\* fields, its colour fields the same arrays
spreadTargetState(objs, target) ==
  [objects |-> Append(objs, objs[target]), ref |-> Len(objs) + 1]

\* a lerpColor that writes the result into its first argument
lerpColorInPlace(arrs, a, b, t) ==
  [arrays |-> [arrs EXCEPT ![a] = lerpColor(arrs[a], arrs[b], t)], ref |-> a]

\* lerpColor(a, b, t) on the heap: the array literal it returns is a new array
lerpColorFresh(arrs, a, b, t) ==
  [arrays |-> Append(arrs, lerpColor(arrs[a], arrs[b], t)), ref |-> Len(arrs) + 1]

\* the assignments of render(time) to the fields of the current object
TickObject(current, target, base, mid, high, t) ==
  [baseColor |-> base, midColor |-> mid, highlight |-> high,
   highlightSize |-> lerp(current.highlightSize, target.highlightSize, t),
   highlightPulse |-> lerp(current.highlightPulse, target.highlightPulse, t),
   cloudIntensity |-> lerp(current.cloudIntensity, target.cloudIntensity, t),
   pulseAmount |-> lerp(current.pulseAmount, target.pulseAmount, t),
   pulseSpeed |-> target.pulseSpeed,
   cloudSpeed |-> target.cloudSpeed,
   highlightDrift |-> target.highlightDrift]

\* render(time) on the heap: the three lerpColor calls in order, each reading
\* the arrays the previous one left, then the result stored in the current object
TickHeap(arrs, objs, cur, tgt, t) ==
  The({The({The({[arrays |-> r3.arrays,
                  objects |-> [objs EXCEPT ![cur] =
                                 TickObject(objs[cur], objs[tgt],
                                            r1.ref, r2.ref, r3.ref, t)]] :
                   r3 \in {lerpColorFresh(r2.arrays, objs[cur].highlight,
                                          objs[tgt].highlight, t)}}) :
              r2 \in {lerpColorFresh(r1.arrays, objs[cur].midColor,
                                     objs[tgt].midColor, t)}}) :
         r1 \in {lerpColorFresh(arrs, objs[cur].baseColor, objs[tgt].baseColor, t)}})

\* the first render of the two instances, each with its own memo object
HeapFirstRender(p1, p2) ==
  The({The({[arrays |-> m2.arrays, objects |-> <<m1.object, m2.object>>] :
              m2 \in {HeapTargetState(m1.arrays, StaticTables, p2)}}) :
         m1 \in {HeapTargetState(StaticArrays, StaticTables, p1)}})

NewOrb(p, target) ==
  [props |-> p, target |-> target, current |-> None, closure |-> None,
   effectsPending |-> TRUE, mounted |-> FALSE, ticks |-> 0, changes |-> 0]

InitHeap ==
  /\ \E p1 \in HeapMountProps, p2 \in HeapMountProps :
       /\ arrays = HeapFirstRender(p1, p2).arrays
       /\ objects = HeapFirstRender(p1, p2).objects
       /\ orb = [i \in Orbs |-> NewOrb(IF i = 1 THEN p1 ELSE p2, i)]
  /\ tables = StaticTables
  /\ props = DefaultProps
  /\ targetState = ComputeTargetState(DefaultProps)
  /\ currentParams = None
  /\ glRef = FALSE
  /\ initCleanup = FALSE
  /\ loopCleanup = FALSE
  /\ effectsPending = FALSE
  /\ frames = {}
  /\ animationFrameRef = 0
  /\ stepT = Num(0)
  /\ reflectionUniform = Num(0)
  /\ ticks = 0
  /\ changes = 0
  /\ diagnostics = 0
  /\ pc = "heap"
  /\ hexIn = <<>>
  /\ rgbOut = <<>>
  /\ schemeOut = <<>>
  /\ fragIn = <<>>
  /\ fragOut = <<>>
  /\ glObjects = {}

\* the effects of the mount of instance i: the init effect copies the target
\* state and the loop effect requests the first frame
HeapMount(i) ==
  /\ ~orb[i].mounted
  /\ \E c \in {spreadTargetState(objects, orb[i].target)} :
       /\ objects' = c.objects
       /\ orb' = [orb EXCEPT ![i].current = Some(c.ref),
                             ![i].closure = Some(orb[i].target),
                             ![i].effectsPending = FALSE,
                             ![i].mounted = TRUE]
  /\ UNCHANGED <<arrays, tables>>
  /\ UNCHANGED instanceVars

\* a re-render of instance i with new props: the memo returns a new object
HeapRender(i) ==
  /\ orb[i].mounted
  /\ ~orb[i].effectsPending
  /\ orb[1].changes + orb[2].changes < MaxHeapChanges
  /\ \E p \in HeapProps \ {orb[i].props} :
       \E m \in {HeapTargetState(arrays, tables, p)} :
         /\ arrays' = m.arrays
         /\ objects' = Append(objects, m.object)
         /\ orb' = [orb EXCEPT ![i].props = p,
                               ![i].target = Len(objects) + 1,
                               ![i].effectsPending = TRUE,
                               ![i].changes = @ + 1]
  /\ UNCHANGED tables
  /\ UNCHANGED instanceVars

\* the loop effect of instance i runs again: the pending frame is cancelled and
\* a frame is requested with the target state of the last render in its closure
HeapFlushEffects(i) ==
  /\ orb[i].mounted
  /\ orb[i].effectsPending
  /\ orb' = [orb EXCEPT ![i].closure = Some(orb[i].target),
                        ![i].effectsPending = FALSE]
  /\ UNCHANGED <<arrays, objects, tables>>
  /\ UNCHANGED instanceVars

\* a frame callback of instance i runs
HeapTick(i) ==
  /\ orb[i].closure # None
  /\ orb[1].ticks + orb[2].ticks < MaxHeapTicks
  /\ Representable(Deep(arrays, objects, orb[i].current[1]))
  /\ \E r \in {TickHeap(arrays, objects, orb[i].current[1], orb[i].closure[1],
                        Step(orb[i].props.transitionSpeed))} :
       /\ arrays' = r.arrays
       /\ objects' = r.objects
  /\ orb' = [orb EXCEPT ![i].ticks = @ + 1]
  /\ UNCHANGED tables
  /\ UNCHANGED instanceVars

HeapMountAny == \E i \in Orbs : HeapMount(i)
HeapRenderAny == \E i \in Orbs : HeapRender(i)
HeapFlushAny == \E i \in Orbs : HeapFlushEffects(i)
HeapTickAny == \E i \in Orbs : HeapTick(i)

NextHeap ==
  \/ HeapMountAny
  \/ HeapRenderAny
  \/ HeapFlushAny
  \/ HeapTickAny

SpecHeap == InitHeap /\ [][NextHeap]_vars

-----------------------------------------------------------------------------
(* Colour resolution: C1, C2, C3 *)

Resolved == pc = "resolved"

TargetColors == [base |-> targetState.baseColor, mid |-> targetState.midColor,
                 highlight |-> targetState.highlight]

Scale(colors, k) ==
  [base |-> [i \in 1..3 |-> RMul(colors.base[i], k)],
   mid |-> [i \in 1..3 |-> RMul(colors.mid[i], k)],
   highlight |-> [i \in 1..3 |-> RMul(colors.highlight[i], k)]]

\* the scheme an explicit colorScheme stands for
ExplicitScheme(cs) ==
  [base |-> IF cs.base = None THEN PRESET_COLORS_blue.base ELSE cs.base[1],
   mid |-> IF cs.mid = None THEN PRESET_COLORS_blue.mid ELSE cs.mid[1],
   highlight |-> IF cs.highlight = None THEN PRESET_COLORS_blue.highlight
                 ELSE cs.highlight[1]]

\* the documented precedence below the explicit scheme; a hex string counts as
\* supplied when it is a non-empty string
PrecedenceScheme(p) ==
  IF TruthyStr(p.presetColors[p.preset])
  THEN generateColorScheme(hexToRgb(p.presetColors[p.preset][1]))
  ELSE IF p.preset = "listening" THEN PRESET_COLORS_red
  ELSE IF TruthyStr(p.color) THEN generateColorScheme(hexToRgb(p.color[1]))
  ELSE PRESET_COLORS_blue

\* C1: the resolved colours come from the first source of the documented
\* precedence that is supplied: the explicit colorScheme, else the hex override
\* of the active preset, else (for listening only) the built-in red scheme, else
\* the global colour hex, else the built-in blue scheme; the chosen scheme is
\* what is then halved for asleep.
C1_Precedence ==
  Resolved =>
    TargetColors =
      IF props.colorScheme # None THEN ExplicitScheme(props.colorScheme[1])
      ELSE IF props.preset = "asleep" THEN Scale(PrecedenceScheme(props), Rat(1, 2))
      ELSE PrecedenceScheme(props)

\* listening with a global colour and no listening override resolves to red
C1_Witness ==
  /\ Resolved
  /\ props.preset = "listening"
  /\ props.colorScheme = None
  /\ ~TruthyStr(props.presetColors["listening"])
  /\ props.color = Some(HexGreen)
  /\ TargetColors = PRESET_COLORS_red

\* C2: with an explicit colorScheme each of the three resolved colours is the
\* supplied colour, or the built-in blue one when that colour is absent, whatever
\* the preset, the global colour and the per-preset overrides are, asleep included.
C2_ExplicitScheme ==
  (Resolved /\ props.colorScheme # None) =>
    /\ targetState.baseColor =
         (IF props.colorScheme[1].base # None THEN props.colorScheme[1].base[1]
          ELSE <<Rat(8, 100), Rat(18, 100), Rat(55, 100)>>)
    /\ targetState.midColor =
         (IF props.colorScheme[1].mid # None THEN props.colorScheme[1].mid[1]
          ELSE <<Rat(15, 100), Rat(35, 100), Rat(75, 100)>>)
    /\ targetState.highlight =
         (IF props.colorScheme[1].highlight # None THEN props.colorScheme[1].highlight[1]
          ELSE <<Rat(1, 2), Rat(3, 4), Num(1)>>)

\* asleep with only the base colour given, a global colour and an asleep override
C2_Witness ==
  /\ Resolved
  /\ props.preset = "asleep"
  /\ props.colorScheme = Some([base |-> Some(Magenta), mid |-> None, highlight |-> None])
  /\ props.color = Some(HexGreen)
  /\ props.presetColors["asleep"] = Some(HexRed)
  /\ targetState.baseColor = Magenta
  /\ targetState.midColor = PRESET_COLORS_blue.mid

\* what the colour inputs resolve to for asleep when no dimming is applied
UndimmedAsleep(p) ==
  IF TruthyStr(p.presetColors["asleep"])
  THEN generateColorScheme(hexToRgb(p.presetColors["asleep"][1]))
  ELSE IF TruthyStr(p.color) THEN generateColorScheme(hexToRgb(p.color[1]))
  ELSE PRESET_COLORS_blue

\* C3: for asleep without an explicit colorScheme every channel of the three
\* resolved colours is one half of the channel the same colour inputs resolve to
\* undimmed; for every other preset, and with an explicit colorScheme, the
\* channels are the unscaled ones.
C3_AsleepDimming ==
  Resolved =>
    IF props.preset = "asleep" /\ props.colorScheme = None
    THEN \A k \in {"base", "mid", "highlight"} : \A i \in 1..3 :
           RAdd(TargetColors[k][i], TargetColors[k][i]) = UndimmedAsleep(props)[k][i]
    ELSE TargetColors =
           IF props.colorScheme # None THEN ExplicitScheme(props.colorScheme[1])
           ELSE PrecedenceScheme(props)

\* asleep with the red override: base (0.5, 0, 0) dimmed to (0.25, 0, 0)
C3_Witness ==
  /\ Resolved
  /\ props.preset = "asleep"
  /\ props.colorScheme = None
  /\ props.presetColors["asleep"] = Some(HexRed)
  /\ targetState.baseColor = <<Rat(1, 4), Num(0), Num(0)>>
  /\ targetState.highlight = <<Rat(1, 2), Rat(1, 4), Rat(1, 4)>>

-----------------------------------------------------------------------------
(* Animation parameters: C4 *)

\* the override supplies a value for the field
Supplies(animation, f) == animation[f] # None /\ animation[f][1] # UNDEF

\* C4: every one of the seven resolved animation fields is defined: it is the
\* override's value when the override supplies one and the preset's canonical
\* value otherwise, also when the override carries the field with no value.
C4_AnimationMerge ==
  Resolved =>
    \A f \in AnimFields :
      /\ IsNum(targetState[f])
      /\ targetState[f] = IF Supplies(props.animation, f) THEN props.animation[f][1]
                          ELSE PRESET_ANIMATIONS(props.preset)[f]

-----------------------------------------------------------------------------
(* The interpolation of the current state: C5 to C10 *)

TickStep == ticks' = ticks + 1

ColorKeys == {"baseColor", "midColor", "highlight"}
SmoothedFields == {"highlightSize", "highlightPulse", "cloudIntensity", "pulseAmount"}
SnapFields == {"pulseSpeed", "cloudSpeed", "highlightDrift"}

C6_PerFieldPolicy ==
  [][TickStep =>
       \E f \in frames :
         /\ \A k \in ColorKeys : \A i \in 1..3 :
              currentParams'[1][k][i] =
                RAdd(currentParams[1][k][i],
                     RMul(RSub(f.targetState[k][i], currentParams[1][k][i]),
                          RMul(Rat(15, 1000), f.transitionSpeed)))
         /\ \A k \in SmoothedFields :
              currentParams'[1][k] =
                RAdd(currentParams[1][k],
                     RMul(RSub(f.targetState[k], currentParams[1][k]),
                          RMul(Rat(15, 1000), f.transitionSpeed)))
         /\ \A k \in SnapFields : currentParams'[1][k] = f.targetState[k]]_vars

\* one tick after the change from idle to speaking: highlightSize has moved from
\* 0.35 to 0.35 + (1.2 - 0.35) * 0.015 while pulseSpeed is already 6
C6_Witness ==
  /\ changes = 1
  /\ ticks = 1
  /\ props.preset = "speaking"
  /\ currentParams # None
  /\ currentParams[1].highlightSize = Rat(1451, 4000)
  /\ currentParams[1].pulseSpeed = Num(6)
  /\ currentParams[1].cloudSpeed = Rat(85, 100)
  /\ currentParams[1].highlightDrift = Rat(32, 10)

\* C7: the step t used by every tick lies in [0, 1], for any transitionSpeed.
C7_StepInUnit == ticks > 0 => InUnit(stepT)

\* C8: every RGB channel of the three colours of the current state lies in
\* [0, 1] in every reachable state.
C8_ChannelsInUnit ==
  currentParams # None =>
    \A k \in ColorKeys : \A i \in 1..3 : InUnit(currentParams[1][k][i])

\* current === target in every field
EqualsTarget(current, target) ==
  /\ \A k \in ColorKeys : \A i \in 1..3 : StrictEq(current[k][i], target[k][i])
  /\ \A k \in AnimFields : StrictEq(current[k], target[k])

\* C9: a tick that starts with the current state equal to its target in every
\* field ends with the current state equal to that target in every field.
C9_FixedPoint ==
  [][TickStep =>
       \A f \in frames :
         EqualsTarget(currentParams[1], f.targetState) =>
           EqualsTarget(currentParams'[1], f.targetState)]_vars

\* |current - target|
Distance(current, target) == RAbs(RSub(current, target))

\* the distance does not grow, and shrinks when it is not 0
Contracts(before, after, target) ==
  /\ RLeq(Distance(after, target), Distance(before, target))
  /\ before # target => RLess(Distance(after, target), Distance(before, target))

\* C10: with any positive transitionSpeed a tick toward a target does not
\* increase |current - target| of any smoothed field that holds a number, and
\* strictly decreases it while the field differs from the target.
C10_Converges ==
  [][TickStep =>
       \A f \in frames :
         RLess(Num(0), f.transitionSpeed) =>
           /\ \A k \in ColorKeys : \A i \in 1..3 :
                Contracts(currentParams[1][k][i], currentParams'[1][k][i],
                          f.targetState[k][i])
           /\ \A k \in SmoothedFields :
                (IsNum(currentParams[1][k]) /\ IsNum(f.targetState[k])) =>
                  Contracts(currentParams[1][k], currentParams'[1][k],
                            f.targetState[k])]_vars

-----------------------------------------------------------------------------
(* The stop of an instance: C11 *)

\* the cleanups of the unmount have run
Stopped == pc = "unmounted"

\* C11: once the instance is stopped (its cleanups have run on unmount) no frame
\* callback is pending, no tick runs and no frame is requested any more, whatever
\* ticks and configuration changes came before the stop; and the step that stops
\* the instance is not a tick: it moves neither the current state nor the tick
\* count.
C11_Cancellation ==
  [][/\ Stopped' => frames' = {}
     /\ Stopped => (~TickStep /\ animationFrameRef' = animationFrameRef)
     /\ (~Stopped /\ Stopped') =>
           (~TickStep /\ currentParams' = currentParams)]_vars

\* a running instance stopped after a tick and a configuration change
C11_Witness ==
  /\ Stopped
  /\ currentParams # None
  /\ ticks > 0
  /\ changes > 0
  /\ animationFrameRef > 1
  /\ frames = {}

-----------------------------------------------------------------------------
(* A failed initialisation: C12 *)

\* the mount step of an instance whose init effect returned before line 656
FailedMountStep == pc = "rendered" /\ pc' = "mounted" /\ currentParams' = None

\* C12: when the initialisation fails at any of its steps (no context, no shader
\* object, compile error, no program object, link error) the mount emits a
\* diagnostic, and no frame is ever requested nor any tick run for the instance.
C12_FailureIsLoud ==
  [][/\ FailedMountStep => diagnostics' = diagnostics + 1
     /\ currentParams' = None => (frames' = {} /\ ~TickStep)]_vars

-----------------------------------------------------------------------------
(* The reflection setting: C13 *)

\* the intensity the reflection setting stands for
Intensity(reflections) ==
  CASE ~reflections.isObject /\ ~reflections.bool -> Num(0)
    [] ~reflections.isObject /\ reflections.bool -> Rat(6, 10)
    [] reflections.isObject /\ reflections.enabled = Some(TRUE)
         /\ reflections.intensity = None -> Rat(6, 10)
    [] reflections.isObject /\ reflections.enabled = Some(TRUE)
         /\ reflections.intensity # None -> reflections.intensity[1]
    [] reflections.isObject /\ reflections.enabled # Some(TRUE) -> Num(0)

\* C13: every tick passes one reflection intensity to the shader: 0 for false,
\* 0.6 for true, the intensity of an object with enabled true (0.6 when it has
\* none), 0 for an object whose enabled is false or absent whatever its
\* intensity; the value is in [0,1] when the intensity given is in [0,1].
C13_ReflectionIntensity ==
  [][TickStep =>
       \A f \in frames :
         /\ reflectionUniform' = Intensity(f.reflections)
         /\ (f.reflections.intensity = None \/ InUnit(f.reflections.intensity[1]))
              => InUnit(reflectionUniform')]_vars

\* a tick ran with the object { enabled: true, intensity: 0.3 }: no other setting
\* of the model gives 0.3
C13_Witness ==
  /\ ticks > 0
  /\ changes > 0
  /\ reflectionUniform = Rat(3, 10)

-----------------------------------------------------------------------------
(* The colour utilities: C14, C15, C16 *)

HexChars == {"0", "1", "2", "3", "4", "5", "6", "7", "8", "9",
             "a", "b", "c", "d", "e", "f", "A", "B", "C", "D", "E", "F"}

\* the string is exactly six hexadecimal digits with an optional leading #
SixHexDigits(h) ==
  \/ Len(h) = 6 /\ \A i \in 1..6 : h[i] \in HexChars
  \/ Len(h) = 7 /\ h[1] = "#" /\ \A i \in 2..7 : h[i] \in HexChars

Fallback == <<Rat(15, 100), Rat(35, 100), Rat(75, 100)>>

\* the render consults the string: a non-empty override of the active preset, or
\* a non-empty colour when the preset is not listening
Consulted ==
  \/ props.presetColors[props.preset] = Some(hexIn) /\ Len(hexIn) > 0
  \/ props.color = Some(hexIn) /\ Len(hexIn) > 0 /\ props.preset # "listening"

\* C14: for every string that is not exactly six hexadecimal digits with an
\* optional leading #, hexToRgb returns (0.15, 0.35, 0.75) and the scheme
\* generated from the string is generateColorScheme((0.15, 0.35, 0.75)); a render
\* that consults the string as its colour or as the override of its preset takes
\* that scheme as the chosen one (halved for asleep like every chosen scheme), and
\* every resolved channel is a number: there is no error outcome.
C14_MalformedFallsBack ==
  ~SixHexDigits(hexIn) =>
    /\ pc \in {"rgb", "scheme", "resolved"} => rgbOut = Some(Fallback)
    /\ pc \in {"scheme", "resolved"} => schemeOut = Some(generateColorScheme(Fallback))
    /\ pc = "resolved" =>
         /\ \A k \in {"base", "mid", "highlight"} : \A i \in 1..3 :
              IsNum(TargetColors[k][i])
         /\ Consulted =>
              TargetColors = IF props.preset = "asleep"
                             THEN Scale(generateColorScheme(Fallback), Rat(1, 2))
                             ELSE generateColorScheme(Fallback)

\* seven digits given as the colour of a thinking orb
C14_Witness ==
  /\ pc = "resolved"
  /\ hexIn = <<"1", "2", "3", "4", "5", "6", "7">>
  /\ props.preset = "thinking"
  /\ props.color = Some(hexIn)
  /\ rgbOut = Some(<<Rat(15, 100), Rat(35, 100), Rat(75, 100)>>)
  /\ targetState.baseColor = <<Rat(75, 1000), Rat(175, 1000), Rat(375, 1000)>>
  /\ targetState.midColor = <<Rat(18, 100), Rat(42, 100), Rat(9, 10)>>
  /\ targetState.highlight = <<Rat(575, 1000), Rat(675, 1000), Rat(875, 1000)>>

\* the value of a hexadecimal digit
ValueOfDigit(c) ==
  CASE c = "0" -> 0 [] c = "1" -> 1 [] c = "2" -> 2 [] c = "3" -> 3
    [] c = "4" -> 4 [] c = "5" -> 5 [] c = "6" -> 6 [] c = "7" -> 7
    [] c = "8" -> 8 [] c = "9" -> 9
    [] c \in {"a", "A"} -> 10 [] c \in {"b", "B"} -> 11 [] c \in {"c", "C"} -> 12
    [] c \in {"d", "D"} -> 13 [] c \in {"e", "E"} -> 14 [] c \in {"f", "F"} -> 15

\* the three byte values a valid string denotes
Bytes(h) ==
  LET d == IF Len(h) = 7 THEN Tail(h) ELSE h
  IN  [i \in 1..3 |-> 16 * ValueOfDigit(d[2 * i - 1]) + ValueOfDigit(d[2 * i])]

\* C15: for a string of six hexadecimal digits with an optional leading #,
\* hexToRgb returns for each pair of digits its value n in 0..255 divided by 255,
\* whatever the case of the letters and with or without the #; and two valid
\* strings give the same triple exactly when they denote the same three bytes.
C15_ValidHex ==
  (pc = "rgb" /\ SixHexDigits(hexIn)) =>
    /\ \A i \in 1..3 :
         /\ Bytes(hexIn)[i] \in 0..255
         /\ rgbOut[1][i] = Rat(Bytes(hexIn)[i], 255)
    /\ \A other \in HexInputs :
         SixHexDigits(other) =>
           ((hexToRgb(other) = rgbOut[1]) <=> (Bytes(other) = Bytes(hexIn)))

\* "#0Aa0fF" gives (10/255, 160/255, 1), as "0aa0fF" does
C15_Witness ==
  /\ pc = "rgb"
  /\ hexIn = <<"#", "0", "A", "a", "0", "f", "F">>
  /\ rgbOut = Some(<<Rat(10, 255), Rat(160, 255), Num(1)>>)
  /\ hexToRgb(<<"0", "a", "a", "0", "f", "F">>) = rgbOut[1]

\* the largest and the smallest of the three channels
MaxChannel(c) == CHOOSE x \in {c[1], c[2], c[3]} : \A y \in {c[1], c[2], c[3]} : RLeq(y, x)
MinChannel(c) == CHOOSE x \in {c[1], c[2], c[3]} : \A y \in {c[1], c[2], c[3]} : RLeq(x, y)

\* (max - min) / max < 0.1, with 0 for the proxy when max is 0
LowSaturation(c) ==
  \/ MaxChannel(c) = Num(0)
  \/ RLess(RMul(Num(10), RSub(MaxChannel(c), MinChannel(c))), MaxChannel(c))

Luminance(c) ==
  RAdd(RMul(Rat(299, 1000), c[1]),
       RAdd(RMul(Rat(587, 1000), c[2]), RMul(Rat(114, 1000), c[3])))

Grey(v) == <<v, v, v>>

\* min(1, v)
AtMostOne(v) == IF RLess(Num(1), v) THEN Num(1) ELSE v

\* C16: generateColorScheme returns, when the saturation proxy (max-min)/max (0
\* when max is 0) is below 0.1, the grey scheme base 0.4*luminance, mid
\* 0.8*luminance, highlight 0.95 with luminance 0.299r+0.587g+0.114b, and
\* otherwise base 0.5*input, mid min(1, 1.2*input), highlight
\* min(1, 0.5*input+0.5) channel by channel; every channel returned is in [0,1].
C16_SchemeBranches ==
  pc = "scheme" =>
    /\ IF LowSaturation(rgbOut[1])
       THEN schemeOut[1] =
              [base |-> Grey(RMul(Rat(4, 10), Luminance(rgbOut[1]))),
               mid |-> Grey(RMul(Rat(8, 10), Luminance(rgbOut[1]))),
               highlight |-> Grey(Rat(95, 100))]
       ELSE \A i \in 1..3 :
              /\ schemeOut[1].base[i] = RDiv(rgbOut[1][i], Num(2))
              /\ schemeOut[1].mid[i] = AtMostOne(RMul(Rat(12, 10), rgbOut[1][i]))
              /\ schemeOut[1].highlight[i] =
                   AtMostOne(RAdd(RDiv(rgbOut[1][i], Num(2)), Rat(1, 2)))
    /\ \A k \in {"base", "mid", "highlight"} : \A i \in 1..3 :
         InUnit(schemeOut[1][k][i])

\* "ffffe6" has the proxy 25/255 < 0.1 and gives the grey scheme of its luminance
\* 1681/1700
C16_Witness ==
  /\ pc = "scheme"
  /\ hexIn = <<"f", "f", "f", "f", "e", "6">>
  /\ schemeOut[1].base = Grey(Rat(1681, 4250))
  /\ schemeOut[1].mid = Grey(Rat(1681, 2125))
  /\ schemeOut[1].highlight = Grey(Rat(95, 100))
  /\ generateColorScheme(hexToRgb(<<"f", "f", "f", "f", "e", "5">>)).base
       = <<Rat(1, 2), Rat(1, 2), Rat(229, 510)>>

-----------------------------------------------------------------------------
(* The preset table: C17 *)

\* what the render would resolve for the preset q with its other props unchanged
ResolvedFor(q) == ComputeTargetState([props EXCEPT !.preset = q])

\* C17: without an animation override the resolved pulseSpeed is ordered asleep <
\* idle < listening = thinking < speaking over the presets, the resolved
\* highlightDrift is ordered asleep < idle < thinking < speaking, and the resolved
\* highlightDrift is 0 for listening and for no other preset.
C17_PresetOrdering ==
  (Resolved /\ props.animation = NoAnimation) =>
    /\ RLess(ResolvedFor("asleep").pulseSpeed, ResolvedFor("idle").pulseSpeed)
    /\ RLess(ResolvedFor("idle").pulseSpeed, ResolvedFor("listening").pulseSpeed)
    /\ ResolvedFor("listening").pulseSpeed = ResolvedFor("thinking").pulseSpeed
    /\ RLess(ResolvedFor("thinking").pulseSpeed, ResolvedFor("speaking").pulseSpeed)
    /\ RLess(ResolvedFor("asleep").highlightDrift, ResolvedFor("idle").highlightDrift)
    /\ RLess(ResolvedFor("idle").highlightDrift, ResolvedFor("thinking").highlightDrift)
    /\ RLess(ResolvedFor("thinking").highlightDrift, ResolvedFor("speaking").highlightDrift)
    /\ targetState = ResolvedFor(props.preset)
    /\ (targetState.highlightDrift = Num(0)) <=> (props.preset = "listening")

\* listening resolved without an override: highlightDrift 0, pulseSpeed 2.5
C17_Witness ==
  /\ Resolved
  /\ props.preset = "listening"
  /\ props.animation = NoAnimation
  /\ targetState.highlightDrift = Num(0)
  /\ targetState.pulseSpeed = Rat(25, 10)

-----------------------------------------------------------------------------
(* The fragment shader: C18, C19 *)

\* the pixels of the model at the same distance from the origin
SameDistance(uv) == {other \in UvInputs : Dot2(other) = Dot2(uv)}

\* C18: the alpha of the output is 0 at distance 0.73 or more from the origin and
\* 1 at distance 0.71 or less; it is the same for every pixel at the same
\* distance, and the same whatever the colour computed by the lighting and the
\* reflection uniform are; where the mask is below 0.001 the output is
\* (0, 0, 0, 0), and elsewhere the alpha is the mask.
C18_CircularMask ==
  pc = "shaded" =>
    /\ ~RLess(Dot2(fragIn.uv), Sq(Milli(730))) => fragOut[1][4] = Num(0)
    /\ ~RLess(Sq(Milli(710)), Dot2(fragIn.uv)) => fragOut[1][4] = Num(1)
    /\ \A other \in SameDistance(fragIn.uv) :
         FragColor([fragIn EXCEPT !.uv = other])[4] = fragOut[1][4]
    /\ \A c \in LitColorInputs : \A u \in ReflectionUniformInputs :
         FragColor([fragIn EXCEPT !.color = c, !.reflections = u])[4] = fragOut[1][4]
    /\ IF RLess(sphere(fragIn.uv), Milli(1))
       THEN fragOut[1] = <<Num(0), Num(0), Num(0), Num(0)>>
       ELSE fragOut[1][4] = sphere(fragIn.uv)

\* a bright pixel with full reflections at distance 0.7199, where the mask is
\* positive and below 0.001
C18_Witness ==
  /\ pc = "shaded"
  /\ fragIn.uv = <<Rat(7199, 10000), Num(0)>>
  /\ fragIn.color = <<Num(3), Num(2), Num(5)>>
  /\ fragIn.reflections = Num(1)
  /\ RLess(Num(0), sphere(fragIn.uv))
  /\ RLess(sphere(fragIn.uv), Milli(1))
  /\ fragOut = Some(<<Num(0), Num(0), Num(0), Num(0)>>)

\* C19: every colour channel of the output with the reflection uniform of the
\* run is greater than or equal to the same channel of the output of the same
\* pixel and lighting with reflections disabled, also where the colour before the
\* overlay exceeds 1.
C19_OverlayNeverDarkens ==
  pc = "shaded" =>
    \A i \in 1..3 :
      RLeq(FragColor([fragIn EXCEPT !.reflections = Num(0)])[i], fragOut[1][i])

-----------------------------------------------------------------------------
(* The initialisation of the current state: C20 *)

\* C20: the current state leaves null in one step only, the mount of an
\* instance whose rendering setup succeeded, and it is then the target state
\* resolved from the props of that moment; no tick runs while it is null; once
\* set it is never null again and only ticks assign it.
C20_InitialisedOnce ==
  [][/\ (currentParams = None /\ currentParams' # None) =>
          /\ pc = "rendered" /\ pc' = "mounted"
          /\ glRef'
          /\ ~TickStep
          /\ targetState = ComputeTargetState(props)
          /\ currentParams' = Some(targetState)
     /\ currentParams = None => ~TickStep
     /\ currentParams # None =>
          /\ currentParams' # None
          /\ ~TickStep => currentParams' = currentParams]_vars

\* a listening instance with a colour just mounted: the current state is the
\* red target state and no tick has run
C20_Witness ==
  /\ pc = "mounted"
  /\ ticks = 0
  /\ changes = 0
  /\ props.preset = "listening"
  /\ currentParams = Some(targetState)
  /\ targetState.baseColor = PRESET_COLORS_red.base
  /\ frames # {}

-----------------------------------------------------------------------------
(* The target a tick reads: C21 *)

\* C21: every tick interpolates toward the target state of the configuration
\* that is current when it runs: with the step the tick computed, the current
\* state after the tick is the state before it advanced toward the target state
\* of the last render, never toward an earlier one.
C21_TickReadsCurrentTarget ==
  [][TickStep =>
       currentParams' = Some(advance(currentParams[1], targetState, stepT'))]_vars

-----------------------------------------------------------------------------
(* The WebGL objects of an instance: C22 *)

\* C22: once the instance is unmounted and its effect cleanups have run, the
\* shader program, the two shaders and the vertex buffer created by the
\* initialisation have been released: no object the instance created is alive.
C22_ResourcesReleased == pc = "unmounted" => glObjects = {}

-----------------------------------------------------------------------------
(* A failed setup: C23 *)

\* the instance is past its mount and the initialisation did not complete
FailedInstance == pc # "rendered" /\ currentParams = None

\* C23: a failed rendering setup is terminal for the instance: the mount that
\* fails requests no frame, and from then on no step (re-render with any props,
\* run of the effects, unmount) sets up the current state, the context or a
\* WebGL object again, requests a frame or runs a tick.
C23_FailureIsTerminal ==
  [][/\ (pc = "rendered" /\ currentParams' = None) => (frames' = {} /\ ~loopCleanup')
     /\ FailedInstance =>
          /\ currentParams' = None
          /\ glRef' = glRef
          /\ glObjects' = glObjects
          /\ initCleanup' = initCleanup
          /\ diagnostics' = diagnostics
          /\ frames' = {}
          /\ ~loopCleanup'
          /\ ~TickStep]_vars

\* an instance whose shaders did not link, re-rendered twice (the last time
\* with another preset) and with the effects of the last render run: the
\* context exists, and still no frame is requested
C23_Witness ==
  /\ FailedInstance
  /\ pc = "mounted"
  /\ glRef
  /\ "program" \in glObjects
  /\ changes = MaxChanges
  /\ ~effectsPending
  /\ props.preset = "speaking"
  /\ frames = {}
  /\ ticks = 0

-----------------------------------------------------------------------------
(* Instances and aliasing: C24, C29 *)

\* the current state of instance i, with the contents of its colour arrays
CurrentState(i) ==
  IF orb[i].current = None THEN None
  ELSE Some(Deep(arrays, objects, orb[i].current[1]))

HeapTickStep(i) == orb'[i].ticks = orb[i].ticks + 1

\* C24: for every interleaving of the mounts, re-renders, effect runs and ticks
\* of two instances, the current state of an instance is set by its own mount
\* and afterwards changed by its own ticks only: no step of the other instance
\* changes any of its values.
C24_NoSharedState ==
  [][\A i \in Orbs :
       CurrentState(i)' # CurrentState(i) =>
         \/ HeapTickStep(i)
         \/ ~orb[i].mounted /\ orb'[i].mounted]_vars

\* both instances were mounted with the defaults, so the current state of each
\* started on the arrays of PRESET_COLORS.blue; instance 1 was then re-rendered
\* as listening and ticked twice, and instance 2, which never ticked, still has
\* the blue state and still holds the array PRESET_COLORS.blue.base itself
C24_Witness ==
  /\ orb[1].ticks = MaxHeapTicks
  /\ orb[1].props.preset = "listening"
  /\ orb[2].mounted
  /\ orb[2].ticks = 0
  /\ objects[orb[2].current[1]].baseColor = Addr("blue.base")
  /\ CurrentState(2) = Some(ComputeTargetState(DefaultProps))
  /\ CurrentState(1) # CurrentState(2)
  /\ CurrentState(1)[1].pulseSpeed = Rat(25, 10)

\* C29: no step modifies what a tick reads or what the current state was copied
\* from: the tables and the host's colorScheme object keep their fields, the
\* arrays of PRESET_COLORS and of the host's colorScheme keep their contents,
\* and the target state of every instance (of its last render and of the closure
\* of its pending frame) keeps its values, and the target state of a new render
\* is the one resolved from the props of that render.
C29_TickWritesCurrentOnly ==
  [][/\ tables' = tables
     /\ \A a \in 1..Len(StaticArrayNames) : arrays'[a] = arrays[a]
     /\ \A i \in Orbs :
          /\ Deep(arrays', objects', orb[i].target) = Deep(arrays, objects, orb[i].target)
          /\ orb[i].closure # None =>
               Deep(arrays', objects', orb[i].closure[1])
                 = Deep(arrays, objects, orb[i].closure[1])
          /\ orb'[i].target # orb[i].target =>
               Deep(arrays', objects', orb'[i].target)
                 = ComputeTargetState(orb'[i].props)]_vars

\* instance 1, mounted on the arrays of PRESET_COLORS.blue, was re-rendered with
\* the host's colorScheme and ticked: its base colour has left the blue array
\* for a new one on the way to the host's, the target state still holds the
\* host's array itself, and that array and PRESET_COLORS.blue.base are intact
C29_Witness ==
  /\ orb[1].ticks > 0
  /\ orb[1].props.colorScheme # None
  /\ ~orb[1].effectsPending
  /\ objects[orb[1].target].baseColor = Addr("host.base")
  /\ objects[orb[1].current[1]].baseColor > Len(StaticArrayNames)
  /\ CurrentState(1)[1].baseColor
       = lerpColor(PRESET_COLORS_blue.base, Magenta, Step(Num(1)))
  /\ arrays[Addr("host.base")] = Magenta
  /\ arrays[Addr("blue.base")] = PRESET_COLORS_blue.base

-----------------------------------------------------------------------------
(* The order of the presets on the speed and amount axes: C25 *)

SpeedAxes == {"pulseSpeed", "pulseAmount", "cloudSpeed"}

\* the value of the axis resolved for the preset, greater than the one for the other
Faster(f, q, r) == RLess(ResolvedFor(r)[f], ResolvedFor(q)[f])

\* C25 as stated: without an animation override, on each of pulseSpeed,
\* pulseAmount and cloudSpeed the resolved values are strictly ordered
\* speaking > thinking > listening > idle > asleep.
C25_StrictOrdering ==
  (Resolved /\ props.animation = NoAnimation) =>
    \A f \in SpeedAxes :
      /\ Faster(f, "speaking", "thinking")
      /\ Faster(f, "thinking", "listening")
      /\ Faster(f, "listening", "idle")
      /\ Faster(f, "idle", "asleep")

\* C25 amended: without an animation override, on each of pulseSpeed,
\* pulseAmount and cloudSpeed the resolved values are ordered speaking >
\* thinking >= listening > idle > asleep; thinking and listening are equal on
\* pulseSpeed and on pulseAmount and strictly ordered on cloudSpeed.
C25_Ordering ==
  (Resolved /\ props.animation = NoAnimation) =>
    /\ \A f \in SpeedAxes :
         /\ Faster(f, "speaking", "thinking")
         /\ RLeq(ResolvedFor("listening")[f], ResolvedFor("thinking")[f])
         /\ Faster(f, "listening", "idle")
         /\ Faster(f, "idle", "asleep")
    /\ ResolvedFor("thinking").pulseSpeed = ResolvedFor("listening").pulseSpeed
    /\ ResolvedFor("thinking").pulseAmount = ResolvedFor("listening").pulseAmount
    /\ Faster("cloudSpeed", "thinking", "listening")
    /\ targetState = ResolvedFor(props.preset)

\* thinking resolved without an override: pulseAmount 0.05 as for listening,
\* cloudSpeed 0.4 above the 0.35 of listening
C25_Witness ==
  /\ Resolved
  /\ props.preset = "thinking"
  /\ props.animation = NoAnimation
  /\ targetState.pulseAmount = Rat(5, 100)
  /\ targetState.pulseAmount = PRESET_ANIMATIONS("listening").pulseAmount
  /\ targetState.cloudSpeed = Rat(4, 10)

-----------------------------------------------------------------------------
(* The range of the tone mapping: C26 *)

\* C26: whatever the colour before the tone mapping, every colour channel of the
\* output of the shader lies in [0, 1].
C26_ToneMapInUnit ==
  pc = "shaded" => \A i \in 1..3 : InUnit(fragOut[1][i])

-----------------------------------------------------------------------------
(* One pending frame: C27 *)

\* C27: at every moment at most one frame callback of the instance is pending,
\* and it is the one whose handle animationFrameRef holds, so that a cleanup
\* always cancels it; a step leaves at most one pending frame whether it is the
\* mount, a tick, or the restart of the loop after a change.
C27_OneFramePending ==
  /\ Cardinality(frames) <= 1
  /\ \A f \in frames : f.id = animationFrameRef

\* after two re-renders and two ticks, with the effects of the last render run:
\* five frames were requested in all, and the only one pending is the last,
\* with the target state of the last render in its closure
C27_Witness ==
  /\ pc = "mounted"
  /\ changes = MaxChanges
  /\ ticks = MaxTicks
  /\ ~effectsPending
  /\ animationFrameRef = 1 + MaxChanges + MaxTicks
  /\ \E f \in frames : f.id = animationFrameRef /\ f.targetState = targetState
  /\ Cardinality(frames) = 1

-----------------------------------------------------------------------------
(* The loop keeps running: C28 *)

\* the instance is mounted and its initialisation succeeded
Running == pc = "mounted" /\ currentParams # None

\* C28: while the instance is mounted with a successful initialisation, a tick
\* always eventually runs again, whatever re-renders and effect runs come in
\* between: from every such state with n ticks run (n below the bound of the
\* model) the run reaches a state with more than n ticks, unless the instance
\* is unmounted first.
C28_TicksRecur ==
  \A n \in 0..(MaxTicks - 1) :
    (Running /\ ticks = n /\ Representable(currentParams[1]))
      ~> (ticks > n \/ pc # "mounted")

\* the loop was restarted by a change after the first tick, and a second tick
\* has run with the new closure
C28_Witness ==
  /\ Running
  /\ ticks = MaxTicks
  /\ changes > 0
  /\ ~effectsPending
  /\ stepT = Step(props.transitionSpeed)
  /\ props.transitionSpeed = Num(200)
  /\ props.preset = "speaking"
  /\ frames # {}

-----------------------------------------------------------------------------
(* No overshoot: C30 *)

\* x lies in the closed interval spanned by a and b
Within(a, x, b) ==
  The({\/ RLeq(p, y) /\ RLeq(y, q)
       \/ RLeq(q, y) /\ RLeq(y, p) : p \in {a}, y \in {x}, q \in {b}})

\* C30: a tick whose step t lies in [0, 1] leaves every smoothed field (every
\* channel of the three colours, highlightSize, highlightPulse, cloudIntensity,
\* pulseAmount) in the closed interval between its value before the tick and
\* the value of the target the tick read.
C30_NoOvershoot ==
  [][(TickStep /\ InUnit(stepT')) =>
       \E f \in frames :
         /\ \A k \in ColorKeys : \A i \in 1..3 :
              Within(currentParams[1][k][i], currentParams'[1][k][i],
                     f.targetState[k][i])
         /\ \A k \in SmoothedFields :
              Within(currentParams[1][k], currentParams'[1][k],
                     f.targetState[k])]_vars

====
